---- MODULE Spec2Model ----
(***************************************************************************)
(* Model of the per-conversation dispatch pipeline of the Messenger        *)
(* webhook gateway:                                                        *)
(*   - MessengerWebhookService.withSessionLock / processSession            *)
(*     (apps/messenger-webhook/src/services/messenger/webhook-service.ts)  *)
(*   - HttpAguiDispatcher.processEventStream                               *)
(*     (apps/messenger-webhook/src/services/session/in-memory-store.ts)    *)
(*   - MessengerWebhookService.processSessionInternal and the handlers of  *)
(*     createDispatchHandlers.                                             *)
(* Several specifications share the module: SpecLock (the promise-chain    *)
(* mutex), SpecDecoder (the SSE decoder), SpecSession (one processSession  *)
(* body with its un-awaited handler tasks), SpecDispatch (its dispatch     *)
(* phase), SpecFilter (filterSlashCommands), SpecPersist (the read and     *)
(* write of the session record), SpecOverlap (the mutex composed with the  *)
(* store accesses of the calls it serialises), SpecChunk (chunkText),      *)
(* SpecSend (sendTextMessage, sendTypingAction and executeWithRetry),      *)
(* SpecBody (the decoder on a body given in advance), SpecHttp             *)
(* (HttpAguiDispatcher.dispatch), SpecHook (handleWebhook, from its        *)
(* signature check on, over the mutex; SpecHookFair adds the scheduling    *)
(* assumptions), SpecSnapshot and SpecRoles (the decoder on streams with   *)
(* several snapshots, and with a user message framed next to an assistant  *)
(* one) and SpecKeepAlive (the dispatch phase next to a keep-alive tick    *)
(* followed attempt by attempt).                                           *)
(***************************************************************************)
EXTENDS Integers, Sequences, FiniteSets, Bags, TLC

VARIABLES
    \* ---- withSessionLock -------------------------------------------------
    sessionLocks,   \* Map<string, Promise<void>>: key -> call whose chain is stored
    previous,       \* per call: the promise read at line 406 (None = Promise.resolve())
    released,       \* per call: its `current` promise has been resolved (release())
    lpc,            \* per call: position in withSessionLock
    callKey,        \* per call: the sessionId it was invoked with
    entered,        \* calls in the order they entered withSessionLock
    started,        \* calls in the order their task() started
    \* ---- processEventStream ----------------------------------------------
    stream,                 \* the data blocks of the response body consumed so far
    activeMessages,         \* Map<messageId, text>, in insertion order
    dispatchedMessages,     \* Set<messageId>
    consecutiveParseErrors, \* the counter of line 331
    handlerCalls,           \* the handler invocations made so far, in order
    dpc,                    \* "decoding" | "returned" | "threw"
    unread,                 \* the blocks of a body given in advance, not yet consumed
    \* ---- processSessionInternal -------------------------------------------
    batch,            \* the events of the call (its second argument)
    store,            \* the session store's record for the key, or Absent
    spc,              \* position of processSessionInternal, or how it ended
    existing,         \* the record read at line 127
    participants,     \* resolveParticipants(events, existing)
    dispatchable,     \* filterSlashCommands: events left for the agent
    handledCommand,   \* filterSlashCommands: some event was a command
    fidx,             \* filterSlashCommands: index of the event in hand
    typingSent,       \* typingState.sent
    keepAlive,        \* typingState.keepAlive is set
    timerActive,      \* the interval created at line 158 is still scheduled
    tasks,            \* handler and keep-alive invocations still awaiting a send
    outbox,           \* the sends handed to executeWithRetry, in order
    dispatchFailures, \* metrics.dispatchFailures
    dispatchThrew,    \* why dispatcher.dispatch rejected ("none" if it has not)
    pendingError,     \* the exception on its way out of the call, if any
    typingShown,      \* the typing_on send of line 156 succeeded
    nTicks,           \* keep-alive ticks fired so far
    typingOffSettled, \* some typing_off send has settled
    commandCounter,   \* metrics.commandCounter, per command label
    dispatchCall,     \* dispatcher.dispatch: "none" (not invoked), "noinput", "fetch"
    \* ---- processSessionInternal calls sharing one session store -----------
    records,          \* per key: the call whose write the store holds (None if no record)
    loaded,           \* per call: `existing`, the record its read of line 127 returned
    bpc,              \* per call: position of its task() between read, write and /reset
    \* ---- chunkText ---------------------------------------------------------
    source,           \* the `text` argument
    maxLength,        \* the `maxLength` argument
    remaining,        \* the local `remaining`
    chunked,          \* the local `chunks`
    cpc,              \* "entry" | "loop" | "tail" | "returned"
    \* ---- sendTextMessage / sendTypingAction / executeWithRetry -------------
    sendKind,         \* "text" (sendTextMessage) or "action" (sendTypingAction)
    recipient,        \* the `recipientId` argument
    blankText,        \* sendTextMessage: `text.trim()` is empty
    nChunks,          \* the number of chunks (1 for an action); chunk i is named i
    pidx,             \* the chunk of the for-of loop in hand
    attempts,         \* executeWithRetry: the `attempts` argument
    attempt,          \* executeWithRetry: the loop variable
    invocations,      \* the calls of operation() made so far, in order
    lastError,        \* executeWithRetry: the local `lastError`
    delays,           \* the arguments of the delay() calls made so far
    rpc,              \* executeWithRetry: "idle" | "attempt" | "delay" | "returned" | "threw"
    mpc,              \* the sending function: "entry" | "sending" | "returned"
    sendResult,       \* sendTypingAction: the boolean it returned
    outboundMessages, \* metrics.outboundMessages, per status
    \* ---- HttpAguiDispatcher.dispatch ---------------------------------------
    devents,          \* the `events` argument
    handlersArg,      \* the `handlers` argument: "undefined" or "given"
    payload,          \* buildRunInput's result (NoPayload if undefined)
    hpc,              \* position of dispatch, or how it ended
    timer,            \* the timeout of line 207: "none" | "armed" | "fired" | "cancelled"
    timerCleared,     \* clearTimeout(timeout) was called
    fetches,          \* the number of requests made to the agent service
    notified,         \* the handler invocations made so far, in order
    error,            \* the error the catch block received ("none" if none)
    thrownOut,        \* the error dispatch rejected with ("none" if none)
    \* ---- handleWebhook ------------------------------------------------------
    input,            \* per webhook call: its signature header and its payload
    normalized,       \* per webhook call: the events normalizeWebhook returned, in order
    grouped,          \* per webhook call: groupEventsBySession's Map, in insertion order
    gidx,             \* per webhook call: the entry of the for-of loop in hand
    inFlight,         \* per webhook call: the processSession call it awaits (None if none)
    wpc,              \* per webhook call: position of handleWebhook, or how it ended
    receivedEvents,   \* per webhook call: the result's receivedEvents (-1 if none)
    processed         \* the processSession invocations made so far, in order

lockVars == <<sessionLocks, previous, released, lpc, callKey, entered, started>>

decVars == <<stream, activeMessages, dispatchedMessages, consecutiveParseErrors,
             handlerCalls, dpc, unread>>

sessVars == <<batch, store, spc, existing, participants, dispatchable, handledCommand,
              fidx, typingSent, keepAlive, timerActive, tasks, outbox,
              dispatchFailures, dispatchThrew, pendingError, typingShown, nTicks,
              typingOffSettled, commandCounter, dispatchCall>>

bodyVars == <<records, loaded, bpc>>

chunkVars == <<source, maxLength, remaining, chunked, cpc>>

sendVars == <<sendKind, recipient, blankText, nChunks, pidx, attempts, attempt,
              invocations, lastError, delays, rpc, mpc, sendResult, outboundMessages>>

\* The variables of the pure functions and of the helpers modelled on their own.
httpVars == <<devents, handlersArg, payload, hpc, timer, timerCleared, fetches,
              notified, error, thrownOut>>

hookVars == <<input, normalized, grouped, gidx, inFlight, wpc, receivedEvents, processed>>

helperVars == <<chunkVars, sendVars, httpVars, hookVars>>

vars == <<lockVars, decVars, sessVars, bodyVars, helperVars>>

notLockVars == <<decVars, sessVars, bodyVars, helperVars>>
notDecVars == <<lockVars, sessVars, bodyVars, helperVars>>
notSessVars == <<lockVars, decVars, bodyVars, helperVars>>
notBodyVars == <<decVars, sessVars, helperVars>>
coreVars == <<lockVars, decVars, sessVars, bodyVars>>
notChunkVars == <<coreVars, sendVars, httpVars, hookVars>>
notSendVars == <<coreVars, chunkVars, httpVars, hookVars>>
notHttpVars == <<coreVars, chunkVars, sendVars, hookVars>>
notHookVars == <<decVars, sessVars, bodyVars, chunkVars, sendVars, httpVars>>

(***************************************************************************)
(* Bounds                                                                  *)
(***************************************************************************)
MaxCalls == 3
MaxOverlap == 2

None == 0
Calls == 1..MaxCalls
Keys == {"k1", "k2"}

(***************************************************************************)
(* withSessionLock: the promise chain                                      *)
(***************************************************************************)

\* chain = previous.then(() => current): settled once `previous` is settled
\* and then `current` is resolved.  A promise of the map never rejects.
RECURSIVE ChainResolved(_)
ChainResolved(c) ==
    IF c = None THEN TRUE
    ELSE released[c] /\ ChainResolved(previous[c])

\* What a task can end with: a normal return, the DispatchError thrown by
\* processSessionInternal's catch block, or any other exception.
TaskOutcomes == {"returned", "DispatchError", "Error"}

Finished(c) == lpc[c] \in TaskOutcomes

\* lines 406-412: read the map, create `current`, store the chain.
LockEntry(c, k) ==
    /\ lpc[c] = "idle"
    /\ c = Len(entered) + 1
    /\ previous' = [previous EXCEPT ![c] = sessionLocks[k]]
    /\ sessionLocks' = [sessionLocks EXCEPT ![k] = c]
    /\ callKey' = [callKey EXCEPT ![c] = k]
    /\ entered' = Append(entered, c)
    /\ lpc' = [lpc EXCEPT ![c] = "waiting"]
    /\ UNCHANGED <<released, started>>

\* withSessionLock is entered by a caller the model does not follow.
EnterLock(c, k) ==
    /\ LockEntry(c, k)
    /\ UNCHANGED notLockVars

\* The bug "task() is started without awaiting `previous`".
MutAwaitPrevious(c) == TRUE

\* line 414: `await previous` resumes only once the previous chain settled.
AwaitPrevious(c) == ChainResolved(previous[c])

\* lines 414-416: resume after the await and start task().
StartTask(c) ==
    /\ lpc[c] = "waiting"
    /\ AwaitPrevious(c)
    /\ lpc' = [lpc EXCEPT ![c] = "body"]
    /\ started' = Append(started, c)
    /\ UNCHANGED <<sessionLocks, previous, released, callKey, entered, notLockVars>>

\* The bug "the finally block never deletes the map entry".
MutPruneNever(c) == sessionLocks

\* The bug "the map entry is deleted without the `=== chain` test".
MutPruneLock(c) == [sessionLocks EXCEPT ![callKey[c]] = None]

\* lines 419-421: delete the entry only if this call's chain is still the tail.
PruneLock(c) ==
    IF sessionLocks[callKey[c]] = c
    THEN [sessionLocks EXCEPT ![callKey[c]] = None]
    ELSE sessionLocks

\* The bug "release() sits after task() instead of in a finally block".
MutReleaseAfter(c, outcome) ==
    IF outcome = "returned" THEN [released EXCEPT ![c] = TRUE] ELSE released

\* line 418: release() runs in the finally block, whatever task() ended with.
ReleaseAfter(c, outcome) == [released EXCEPT ![c] = TRUE]

\* lines 415-422: task() settles with `outcome`; the finally block runs.
FinishTask(c, outcome) ==
    /\ lpc[c] = "body"
    /\ released' = ReleaseAfter(c, outcome)
    /\ sessionLocks' = PruneLock(c)
    /\ lpc' = [lpc EXCEPT ![c] = outcome]
    /\ UNCHANGED <<previous, callKey, entered, started, notLockVars>>

\* chunkText has been called with the empty text and has not run.
ChunkIdle ==
    /\ source = <<>>
    /\ maxLength = 1
    /\ remaining = <<>>
    /\ chunked = <<>>
    /\ cpc = "entry"

\* No error has been caught.
NoFailure == [item |-> 0, attempt |-> 0]

\* No send has been asked for.
SendIdle ==
    /\ sendKind = "text"
    /\ recipient = "absent"
    /\ blankText = FALSE
    /\ nChunks = 1
    /\ pidx = 1
    /\ attempts = 0
    /\ attempt = 0
    /\ invocations = <<>>
    /\ lastError = NoFailure
    /\ delays = <<>>
    /\ rpc = "idle"
    /\ mpc = "entry"
    /\ sendResult = FALSE
    /\ outboundMessages = [success |-> 0, error |-> 0]

\* buildRunInput returned undefined.
NoPayload == <<>>

\* dispatch has not been called.
HttpIdle ==
    /\ devents = <<>>
    /\ handlersArg = "undefined"
    /\ payload = NoPayload
    /\ hpc = "entry"
    /\ timer = "none"
    /\ timerCleared = FALSE
    /\ fetches = 0
    /\ notified = <<>>
    /\ error = "none"
    /\ thrownOut = "none"

\* The handleWebhook calls of the model.
Webhooks == {"w1", "w2"}

\* No webhook has been delivered.
HookIdle ==
    /\ input = [w \in Webhooks |-> [signatureHeader |-> "valid", payload |-> <<>>]]
    /\ normalized = [w \in Webhooks |-> <<>>]
    /\ grouped = [w \in Webhooks |-> <<>>]
    /\ gidx = [w \in Webhooks |-> 1]
    /\ inFlight = [w \in Webhooks |-> None]
    /\ wpc = [w \in Webhooks |-> "idle"]
    /\ receivedEvents = [w \in Webhooks |-> -1]
    /\ processed = <<>>

\* No helper is running.
HelpersIdle == ChunkIdle /\ SendIdle /\ HttpIdle /\ HookIdle

\* No call has entered withSessionLock yet.
LockIdle ==
    /\ sessionLocks = [k \in Keys |-> None]
    /\ previous = [c \in Calls |-> None]
    /\ released = [c \in Calls |-> FALSE]
    /\ lpc = [c \in Calls |-> "idle"]
    /\ callKey = [c \in Calls |-> "k1"]
    /\ entered = <<>>
    /\ started = <<>>
    /\ records = [k \in Keys |-> None]
    /\ loaded = [c \in Calls |-> None]
    /\ bpc = [c \in Calls |-> "read"]

\* lines 314-315, 331: the decoder's locals at the start of processEventStream.
DecoderIdle ==
    /\ stream = <<>>
    /\ activeMessages = <<>>
    /\ dispatchedMessages = {}
    /\ consecutiveParseErrors = 0
    /\ handlerCalls = <<>>
    /\ dpc = "decoding"
    /\ unread = <<>>

\* An absent session record, user id or page id.
Absent == "absent"

\* processSessionInternal has not been entered.
\* What sessions.read resolves to for a key without a record (undefined);
\* a record that is present is held as a one-element sequence.
NoRecord == <<>>

\* No exception is pending.
NoError == [name |-> "none", cause |-> "none"]

\* metrics.commandCounter before any command was handled.
CommandLabels == {"reset", "help", "unknown"}

NoCommands == [label \in CommandLabels |-> 0]

\* A rejection nothing catches: it leaves the call as the rejecting
\* operation's own Error.
Escaping(cause) == [name |-> "Error", cause |-> cause]

\* The exit of processSessionInternal: the pending exception, if any.
ExitWith(pending) == IF pending = NoError THEN "returned" ELSE pending.name

SessionIdle ==
    /\ batch = <<>>
    /\ store = NoRecord
    /\ spc = "read"
    /\ existing = NoRecord
    /\ participants = [userId |-> Absent, pageId |-> Absent]
    /\ dispatchable = <<>>
    /\ handledCommand = FALSE
    /\ fidx = 1
    /\ typingSent = FALSE
    /\ keepAlive = FALSE
    /\ timerActive = FALSE
    /\ tasks = EmptyBag
    /\ outbox = <<>>
    /\ dispatchFailures = 0
    /\ dispatchThrew = "none"
    /\ pendingError = NoError
    /\ typingShown = FALSE
    /\ nTicks = 0
    /\ typingOffSettled = FALSE
    /\ commandCounter = NoCommands
    /\ dispatchCall = "none"

InitLock == LockIdle /\ DecoderIdle /\ SessionIdle /\ HelpersIdle

NextLock ==
    \/ \E c \in Calls, k \in Keys : EnterLock(c, k)
    \/ \E c \in Calls : StartTask(c)
    \/ \E c \in Calls, o \in TaskOutcomes : FinishTask(c, o)

SpecLock == InitLock /\ [][NextLock]_vars

\* The event loop resumes a continuation whose promise has settled, and every
\* task() is assumed to terminate.
FairLock ==
    \A c \in Calls :
        /\ WF_vars(StartTask(c))
        /\ WF_vars(\E o \in TaskOutcomes : FinishTask(c, o))

SpecLockFair == SpecLock /\ FairLock

(***************************************************************************)
(* Claims about the session lock                                           *)
(***************************************************************************)

SameKey(c, d) == callKey[c] = callKey[d]

\* C1: for every conversation key, at most one task() body (processSessionInternal)
\* is between its start and its completion at any instant, for any number of
\* overlapping callers.
C1_MutualExclusion ==
    \A c \in Calls, d \in Calls :
        (c /= d /\ lpc[c] = "body" /\ lpc[d] = "body") => ~SameKey(c, d)

\* Three callers were queued on one key (each read its predecessor's chain from
\* the map) and the third runs its body after the first two finished.
C1_Witness ==
    /\ lpc[3] = "body" /\ previous[3] = 2 /\ previous[2] = 1
    /\ Finished(1) /\ Finished(2)

\* C2: bodies for one key start in the order the calls entered withSessionLock:
\* a later caller never starts before every earlier caller for the key finished.
C2_Fifo ==
    \A i \in 1..Len(entered), j \in 1..Len(entered) :
        (i < j /\ SameKey(entered[i], entered[j]) /\ lpc[entered[j]] /= "waiting")
            => Finished(entered[i])

\* A caller that queued behind a running one has started after it finished,
\* while a third caller for the key is still waiting behind it.
C2_Witness ==
    /\ previous[2] = 1 /\ lpc[2] = "body" /\ Finished(1)
    /\ previous[3] = 2 /\ lpc[3] = "waiting"

\* C3: every call queued for a key eventually starts its body, whatever the
\* calls before it ended with (return, DispatchError, any other exception).
C3_ReleasedOnEveryExit ==
    \A c \in Calls : (lpc[c] = "waiting") ~> (lpc[c] = "body")

\* A call failed (DispatchError, then another exception) and the call queued
\* behind it runs.
C3_Witness ==
    /\ lpc[1] = "DispatchError" /\ previous[2] = 1
    /\ lpc[2] = "Error" /\ previous[3] = 2 /\ lpc[3] = "body"

(***************************************************************************)
(* processEventStream: the SSE decoder of HttpAguiDispatcher               *)
(***************************************************************************)
MaxBlocks == 4

\* options.maxConsecutiveParseErrors ?? 3
MaxConsecutiveParseErrors == 3

MsgIds == {"m1", "m2"}
\* asString() of an absent or non-string message id.
NoId == "undefined"
\* randomUUID(): an id that no event of the stream carries.
FreshId == "uuid"
\* A Map.get() miss, or asString() of an absent or non-string content.
Undefined == <<"undefined">>

\* Text is a sequence of one-character strings (or of words and blanks).
\* The white space of String.prototype.trim and of /\s/: the blank and, for
\* all the other white-space characters, the tab.
WhiteSpace == {" ", "\t"}

IsSpace(ch) == ch \in WhiteSpace

RECURSIVE TrimStart(_)
TrimStart(t) ==
    IF t /= <<>> /\ IsSpace(Head(t)) THEN TrimStart(Tail(t)) ELSE t

RECURSIVE TrimEnd(_)
TrimEnd(t) ==
    IF t /= <<>> /\ IsSpace(t[Len(t)]) THEN TrimEnd(SubSeq(t, 1, Len(t) - 1)) ELSE t

\* String.prototype.trim
Trim(t) == TrimEnd(TrimStart(t))

\* isAssistant(role): roles are kept in lower case here.
IsAssistant(role) == role = "assistant"

\* The bug "the delta is read from a field the event does not carry".
MutExtractDelta(t) == <<>>

\* extractDelta(event.delta ?? event.text ?? ''): a string is taken as it is.
ExtractDelta(t) == IF t = Undefined THEN <<>> ELSE t

\* One parsed data block of the stream (or an unparsable one).
Block(type, id, role, text, messages) ==
    [type |-> type, id |-> id, role |-> role, text |-> text, messages |-> messages]

SnapshotMessage(id, role, text) == [id |-> id, role |-> role, text |-> text]

\* The blocks the agent-run service may send, one per step.
StreamBlocks ==
    { Block("RUN_STARTED", NoId, "none", Undefined, <<>>),
      Block("RUN_FINISHED", NoId, "none", Undefined, <<>>),
      Block("RUN_ERROR", NoId, "none", Undefined, <<>>),
      Block("TEXT_MESSAGE_START", "m1", "assistant", Undefined, <<>>),
      Block("TEXT_MESSAGE_CONTENT", "m1", "none", <<"a">>, <<>>),
      Block("TEXT_MESSAGE_CONTENT", "m1", "none", <<" ">>, <<>>),
      Block("TEXT_MESSAGE_END", "m1", "none", Undefined, <<>>),
      Block("TEXT_MESSAGE", "m1", "assistant", <<"a">>, <<>>),
      Block("TEXT_MESSAGE", "m2", "assistant", <<"b">>, <<>>),
      Block("MESSAGES_SNAPSHOT", NoId, "none", Undefined,
            <<SnapshotMessage("m2", "user", <<"b">>),
              SnapshotMessage("m1", "assistant", <<"a">>)>>),
      Block("UNPARSABLE", NoId, "none", Undefined, <<>>) }

\* One handler invocation.
HandlerCall(h, id, content) == [h |-> h, id |-> id, content |-> content]

\* The decoder's closure state as one value.
DecoderState ==
    [active |-> activeMessages, dispatched |-> dispatchedMessages,
     calls |-> handlerCalls]

ActiveHas(active, id) == \E i \in 1..Len(active) : active[i].id = id

ActiveGet(active, id) ==
    IF ActiveHas(active, id)
    THEN active[CHOOSE i \in 1..Len(active) : active[i].id = id].text
    ELSE Undefined

\* Map.set keeps the position of a key that is already present.
ActiveSet(active, id, text) ==
    IF ActiveHas(active, id)
    THEN [i \in 1..Len(active) |->
            IF active[i].id = id THEN [id |-> id, text |-> text] ELSE active[i]]
    ELSE Append(active, [id |-> id, text |-> text])

ActiveDelete(active, id) == SelectSeq(active, LAMBDA e : e.id /= id)

\* The bug "emitMessage does not consult dispatchedMessages".
MutEmitMessage(d, messageId, content) ==
    IF content = Undefined \/ Trim(content) = <<>> THEN d
    ELSE [d EXCEPT !.calls =
            Append(@, HandlerCall("onAssistantMessage", messageId, Trim(content)))]

\* lines 317-329
EmitMessage(d, messageId, content) ==
    IF content = Undefined \/ Trim(content) = <<>> THEN d
    ELSE IF messageId /= NoId /\ messageId \in d.dispatched THEN d
    ELSE [d EXCEPT
            !.dispatched = IF messageId /= NoId THEN @ \cup {messageId} ELSE @,
            !.calls =
                Append(@, HandlerCall("onAssistantMessage", messageId, Trim(content)))]

\* The bug "the flush bypasses emitMessage and its tests".
MutEmitUnchecked(d, entries) ==
    [d EXCEPT !.calls = @ \o [i \in 1..Len(entries) |->
        HandlerCall("onAssistantMessage", entries[i].id, Trim(entries[i].text))]]

\* The bug "the accumulators still open are dropped, not flushed".
MutEmitAll(d, entries) == d

\* for (const [messageId, content] of activeMessages.entries()) emitMessage(...)
RECURSIVE EmitAll(_, _)
EmitAll(d, entries) ==
    IF entries = <<>> THEN d
    ELSE EmitAll(EmitMessage(d, Head(entries).id, Head(entries).text), Tail(entries))

\* The bug "the snapshot loop does not look at the role".
RECURSIVE MutEmitSnapshot(_, _)
MutEmitSnapshot(d, messages) ==
    IF messages = <<>> THEN d
    ELSE MutEmitSnapshot(EmitMessage(d, Head(messages).id, Head(messages).text),
                         Tail(messages))

\* lines 461-471: the loop over a MESSAGES_SNAPSHOT's messages.
RECURSIVE EmitSnapshot(_, _)
EmitSnapshot(d, messages) ==
    IF messages = <<>> THEN d
    ELSE LET m == Head(messages) IN
         IF ~IsAssistant(m.role) THEN EmitSnapshot(d, Tail(messages))
         ELSE IF m.id /= NoId /\ m.id \in d.dispatched
              THEN EmitSnapshot(d, Tail(messages))
         ELSE EmitSnapshot(EmitMessage(d, m.id, m.text), Tail(messages))

\* dispatchedMessages.clear() of lines 375 and 393.
ClearDispatched(dispatched) == {}

\* lines 370-477: the switch over the event type.
OnBlock(d, b) ==
    CASE b.type = "RUN_STARTED" ->
            [active |-> <<>>, dispatched |-> ClearDispatched(d.dispatched),
             calls |-> Append(d.calls, HandlerCall("onRunStarted", NoId, <<>>))]
      [] b.type = "RUN_FINISHED" ->
            LET f == EmitAll(d, d.active) IN
            [active |-> <<>>, dispatched |-> ClearDispatched(f.dispatched),
             calls |-> Append(f.calls, HandlerCall("onRunFinished", NoId, <<>>))]
      [] b.type = "RUN_ERROR" ->
            [d EXCEPT !.calls = Append(@, HandlerCall("onRunError", NoId, <<>>))]
      [] b.type = "TEXT_MESSAGE_START" ->
            IF ~IsAssistant(b.role) THEN d
            ELSE LET messageId == IF b.id = NoId THEN FreshId ELSE b.id IN
                 IF ActiveHas(d.active, messageId) THEN d
                 ELSE [d EXCEPT !.active = ActiveSet(@, messageId, <<>>)]
      [] b.type \in {"TEXT_MESSAGE_CONTENT", "TEXT_MESSAGE_CHUNK"} ->
            IF b.id = NoId THEN d
            ELSE IF ~IsAssistant(b.role) /\ d.active = <<>> THEN d
            ELSE LET current == IF ActiveHas(d.active, b.id)
                                THEN ActiveGet(d.active, b.id) ELSE <<>>
                 IN [d EXCEPT !.active = ActiveSet(@, b.id, current \o ExtractDelta(b.text))]
      [] b.type = "TEXT_MESSAGE_END" ->
            IF b.id = NoId THEN d
            ELSE EmitMessage([d EXCEPT !.active = ActiveDelete(@, b.id)],
                             b.id, ActiveGet(d.active, b.id))
      [] b.type = "TEXT_MESSAGE" ->
            IF ~IsAssistant(b.role) THEN d
            ELSE IF b.id /= NoId /\ b.id \in d.dispatched THEN d
            ELSE EmitMessage(d, b.id, b.text)
      [] b.type = "MESSAGES_SNAPSHOT" ->
            IF d.dispatched /= {} THEN d
            ELSE [EmitSnapshot(d, b.messages) EXCEPT !.active = <<>>]
      [] OTHER -> d

\* The bug "the count of parse failures is never compared with the limit".
MutGivesUp(count) == FALSE

\* line 358: the test that turns a parse failure into the fatal error.
GivesUp(count) == count >= MaxConsecutiveParseErrors

\* lines 333-478: one iteration of the loop over the blocks, for block b.
DecodeStep(b) ==
    /\ dpc = "decoding"
    /\ stream' = Append(stream, b)
    /\ IF b.type = "UNPARSABLE"
       THEN /\ consecutiveParseErrors' = consecutiveParseErrors + 1
            /\ dpc' = IF GivesUp(consecutiveParseErrors + 1)
                      THEN "threw" ELSE "decoding"
            /\ UNCHANGED <<activeMessages, dispatchedMessages, handlerCalls>>
       ELSE LET d == OnBlock(DecoderState, b) IN
            /\ consecutiveParseErrors' = 0
            /\ activeMessages' = d.active
            /\ dispatchedMessages' = d.dispatched
            /\ handlerCalls' = d.calls
            /\ dpc' = dpc
    /\ UNCHANGED notDecVars

\* The loop takes a block of a body that is not given in advance.
DecodeBlock(b) ==
    /\ Len(stream) < MaxBlocks
    /\ DecodeStep(b)
    /\ UNCHANGED unread

\* lines 480-483: the body is exhausted; flush what is still open and return.
EndOfStream ==
    /\ dpc = "decoding"
    /\ LET d == EmitAll(DecoderState, activeMessages) IN
        /\ dispatchedMessages' = d.dispatched
        /\ handlerCalls' = d.calls
    /\ dpc' = "returned"
    /\ UNCHANGED <<stream, activeMessages, consecutiveParseErrors, unread, notDecVars>>

InitDecoder == DecoderIdle /\ LockIdle /\ SessionIdle /\ HelpersIdle

NextDecoder ==
    \/ \E b \in StreamBlocks : DecodeBlock(b)
    \/ EndOfStream

SpecDecoder == InitDecoder /\ [][NextDecoder]_vars

(***************************************************************************)
(* Claims about the decoder                                                *)
(***************************************************************************)

\* The positions of handlerCalls at which message `id` was delivered.
Deliveries(id) ==
    { i \in 1..Len(handlerCalls) :
        handlerCalls[i].h = "onAssistantMessage" /\ handlerCalls[i].id = id }

IsRunBoundaryCall(call) == call.h \in {"onRunStarted", "onRunFinished"}

IsRunBoundaryBlock(b) == b.type \in {"RUN_STARTED", "RUN_FINISHED"}

\* C4 as stated: over one whole processEventStream call, whatever the stream
\* holds, onAssistantMessage is invoked at most once for a message id.
C4_AtMostOncePerStream ==
    \A m \in MsgIds : Cardinality(Deliveries(m)) <= 1

\* C4 as amended: between two consecutive run boundaries (RUN_STARTED or
\* RUN_FINISHED, where dispatchedMessages is cleared) onAssistantMessage is
\* invoked at most once for a message id.
C4_AtMostOncePerRun ==
    \A m \in MsgIds : \A i \in Deliveries(m), j \in Deliveries(m) :
        i < j => \E k \in (i + 1)..(j - 1) : IsRunBoundaryCall(handlerCalls[k])

\* Message m1 arrived twice within one run (no run boundary in between) and
\* was delivered once.
C4_Witness ==
    /\ Cardinality(Deliveries("m1")) = 1
    /\ \E i \in 1..Len(stream), j \in 1..Len(stream) :
        /\ i < j
        /\ stream[i].type = "TEXT_MESSAGE" /\ stream[i].id = "m1"
        /\ stream[j].type = "TEXT_MESSAGE" /\ stream[j].id = "m1"
        /\ \A k \in i..j : ~IsRunBoundaryBlock(stream[k])

FramingTypes ==
    {"TEXT_MESSAGE_START", "TEXT_MESSAGE_CONTENT", "TEXT_MESSAGE_CHUNK", "TEXT_MESSAGE_END"}

\* The framing events and the snapshot events of the stream that carry id m.
FramingOf(m) == SelectSeq(stream, LAMBDA b : b.id = m /\ b.type \in FramingTypes)

SnapshotsOf(m) == SelectSeq(stream, LAMBDA b : b.id = m /\ b.type = "TEXT_MESSAGE")

\* START (assistant role), one or more CONTENT, END.
IsFraming(f) ==
    /\ Len(f) >= 3
    /\ f[1].type = "TEXT_MESSAGE_START" /\ IsAssistant(f[1].role)
    /\ f[Len(f)].type = "TEXT_MESSAGE_END"
    /\ \A i \in 2..(Len(f) - 1) : f[i].type \in {"TEXT_MESSAGE_CONTENT", "TEXT_MESSAGE_CHUNK"}

RECURSIVE FramingText(_)
FramingText(f) ==
    IF f = <<>> THEN <<>>
    ELSE (IF Head(f).type \in {"TEXT_MESSAGE_CONTENT", "TEXT_MESSAGE_CHUNK"}
          THEN Head(f).text ELSE <<>>) \o FramingText(Tail(f))

\* The stream is one run: RUN_STARTED only first, RUN_FINISHED only last, and
\* only the streaming and single-snapshot forms (no MESSAGES_SNAPSHOT).
OneRun ==
    \A i \in 1..Len(stream) :
        /\ stream[i].type = "RUN_STARTED" => i = 1
        /\ stream[i].type = "RUN_FINISHED" => i = Len(stream)
        /\ stream[i].type /= "MESSAGES_SNAPSHOT"

\* Message m arrives with text `text` as framing, as one snapshot, or as both.
ArrivesAs(m, text) ==
    LET f == FramingOf(m)
        s == SnapshotsOf(m)
    IN  /\ f = <<>> \/ (IsFraming(f) /\ FramingText(f) = text)
        /\ s = <<>> \/ (Len(s) = 1 /\ IsAssistant(s[1].role) /\ s[1].text = text)
        /\ f /= <<>> \/ s /= <<>>

MessageTexts == {<<"a">>, <<"b">>, <<"a", " ">>, <<" ", "a">>, <<"a", "a">>}

MaxBatch == 2
MaxHandlerCalls == 1
MaxChunks == 2
MaxTicks == 1

\* A normalised Messenger event.  Text is a sequence of words and blanks.
InboundEvent(type, kind, text, isEcho, senderId, recipientId) ==
    [type |-> type, kind |-> kind, text |-> text, isEcho |-> isEcho,
     senderId |-> senderId, recipientId |-> recipientId, timestamp |-> 1]

InboundEvents ==
    { InboundEvent("message", "text", <<"hello">>, FALSE, "u1", "p1"),
      InboundEvent("message", "text", <<"/reset">>, FALSE, "u1", "p1"),
      InboundEvent("message", "text", <<"hello">>, TRUE, "u1", "p1"),
      InboundEvent("message", "text", <<"hello">>, FALSE, Absent, "p1") }

Batches == UNION { [1..n -> InboundEvents] : n \in 1..MaxBatch }

\* The records the store may hold for the key before the call.
StoredRecords ==
    { NoRecord,
      <<[runId |-> "r1", userId |-> "u1", pageId |-> "p1", lastEventTimestamp |-> 0]>> }

\* existing?.field
FieldOf(record, field) == IF record = NoRecord THEN Absent ELSE record[1][field]

\* a ?? b without its right-hand side.
MutCoalesce(a, b) == a

\* a ?? b
Coalesce(a, b) == IF a /= Absent THEN a ELSE b

\* lines 485-512.  A postback carries its sender in event.raw.
RECURSIVE ResolveParticipants(_, _)
ResolveParticipants(events, record) ==
    IF events = <<>>
    THEN [userId |-> FieldOf(record, "userId"), pageId |-> FieldOf(record, "pageId")]
    ELSE LET e == Head(events) IN
         IF e.type = "message"
         THEN [userId |-> Coalesce(e.senderId, FieldOf(record, "userId")),
               pageId |-> Coalesce(e.recipientId, FieldOf(record, "pageId"))]
         ELSE IF e.type = "postback" /\ e.senderId /= Absent
         THEN [userId |-> e.senderId,
               pageId |-> Coalesce(e.recipientId, FieldOf(record, "pageId"))]
         ELSE ResolveParticipants(Tail(events), record)

\* lines 195-201: the record persistSession writes.  runId stands for the
\* fields that only the spread of the prior record (line 197) carries over.
SessionState(record, parts, events) ==
    [runId |-> FieldOf(record, "runId"),
     userId |-> Coalesce(parts.userId, FieldOf(record, "userId")),
     pageId |-> Coalesce(parts.pageId, FieldOf(record, "pageId")),
     lastEventTimestamp |-> events[Len(events)].timestamp]

\* The words that begin with '/', and String.prototype.toLowerCase on them.
SlashWords == {"/reset", "/help", "/foo", "/RESET"}

ToLowerCase(word) == IF word = "/RESET" THEN "/reset" ELSE word

\* lines 286-292: the command word of a text, or Absent if it is no command.
CommandOf(text) ==
    LET trimmed == Trim(text) IN
    IF trimmed = <<>> \/ Head(trimmed) \notin SlashWords THEN Absent
    ELSE ToLowerCase(Head(trimmed))

\* line 267 without its test of the message kind.
MutIsCommand(e) == e.type = "message" /\ CommandOf(e.text) /= Absent

\* line 267 and lines 286-289
IsCommand(e) == e.type = "message" /\ e.kind = "text" /\ CommandOf(e.text) /= Absent

\* line 291: the first whitespace-delimited token of the trimmed text.
RawCommandOf(text) == Head(Trim(text))

\* The default branch of the switch counting under the wrong label.
MutCommandLabel(command) == IF command = "/reset" THEN "reset" ELSE "help"

\* lines 294-321: the label the command is counted under.
CommandLabel(command) ==
    IF command = "/reset" THEN "reset" ELSE IF command = "/help" THEN "help" ELSE "unknown"

\* metrics.commandCounter.inc({ command: label, ... })
Inc(counter, label) == [counter EXCEPT ![label] = @ + 1]

\* lines 298-319: the text of the reply to a command.
ReplyText(rawCommand) ==
    LET command == ToLowerCase(rawCommand) IN
    IF command = "/reset" THEN <<"Conversation reset. You can start again.">>
    ELSE IF command = "/help" THEN <<"SLASH_HELP_MESSAGE">>
    ELSE <<"Unknown command: ", rawCommand, "SLASH_HELP_MESSAGE">>

\* sendTextMessage(userId, <reply>, 'command')
CommandReply(rawCommand) ==
    [kind |-> "command", by |-> "tryHandleSlashCommand", text |-> ReplyText(rawCommand)]

\* The bug "buildUserMessage does not test envelope.isEcho".
MutYieldsUserMessage(e) ==
    \/ e.type = "message" /\ e.kind \in {"text", "quick_reply", "attachments"}
    \/ e.type = "postback"

\* buildUserMessage / buildRunInput: does the event yield a user message?
YieldsUserMessage(e) ==
    \/ e.type = "message" /\ ~e.isEcho /\ e.kind \in {"text", "quick_reply", "attachments"}
    \/ e.type = "postback"

\* buildRunInput returns undefined when no user message results (line 267).
HasRunInput(events) == \E i \in 1..Len(events) : YieldsUserMessage(events[i])

\* A send issued through agent.sendMessage: what is sent and which code sent it.
Sent(kind, by) == [kind |-> kind, by |-> by]

\* An un-awaited handler (or keep-alive) invocation suspended on a send.
Task(handler, awaiting, chunksLeft) ==
    [handler |-> handler, awaiting |-> awaiting, chunksLeft |-> chunksLeft]

\* The state the synchronous part of a handler reads and writes.
HandlerState ==
    [keepAlive |-> keepAlive, timerActive |-> timerActive, tasks |-> tasks,
     outbox |-> outbox]

Issue(h, kind, by) == [h EXCEPT !.outbox = Append(@, Sent(kind, by))]

Spawn(h, task) == [h EXCEPT !.tasks = @ (+) SetToBag({task})]

\* if (typingState.keepAlive) { clearInterval(...); typingState.keepAlive = undefined }
ClearKeepAlive(h) ==
    IF h.keepAlive THEN [h EXCEPT !.keepAlive = FALSE, !.timerActive = FALSE] ELSE h

\* ---- createDispatchHandlers: each handler up to its first await ----------

\* lines 219-221
OnRunStarted(h) == h

\* lines 222-232: clears the timer and, if typing is shown, issues typing_off;
\* typingState.sent is reset only after that send settles.
OnRunFinished(h) ==
    LET c == ClearKeepAlive(h) IN
    IF typingSent
    THEN Spawn(Issue(c, "typing_off", "onRunFinished"), Task("onRunFinished", "typing_off", 1))
    ELSE c

\* lines 233-237: the apology is sent first; the rest runs after it settles.
OnRunError(h) ==
    Spawn(Issue(h, "error", "onRunError"), Task("onRunError", "error", 1))

\* lines 247-253: sendTextMessage issues the first chunk.
OnAssistantMessage(h, chunks) ==
    Spawn(Issue(h, "assistant", "onAssistantMessage"),
          Task("onAssistantMessage", "assistant", chunks))

\* The handler invocations processEventStream can make for one response body:
\* it calls them synchronously, one after the other, and awaits none.
SessionHandlerCalls ==
    { [h |-> x, chunks |-> 1] : x \in {"onRunStarted", "onRunFinished", "onRunError"} }
        \cup { [h |-> "onAssistantMessage", chunks |-> n] : n \in 1..MaxChunks }

HandlerSeqs == UNION { [1..n -> SessionHandlerCalls] : n \in 0..MaxHandlerCalls }

ApplyHandler(h, call) ==
    CASE call.h = "onRunStarted" -> OnRunStarted(h)
      [] call.h = "onRunFinished" -> OnRunFinished(h)
      [] call.h = "onRunError" -> OnRunError(h)
      [] call.h = "onAssistantMessage" -> OnAssistantMessage(h, call.chunks)

RECURSIVE ApplyHandlers(_, _)
ApplyHandlers(h, calls) ==
    IF calls = <<>> THEN h
    ELSE ApplyHandlers(ApplyHandler(h, Head(calls)), Tail(calls))

\* Write a handler state back to the variables.
SetHandlerState(h) ==
    /\ keepAlive' = h.keepAlive
    /\ timerActive' = h.timerActive
    /\ tasks' = h.tasks
    /\ outbox' = h.outbox

\* ---- processSessionInternal: the awaited steps, in program order ---------

\* line 127: sessions.read is awaited outside any try block.
ReadSession(ok) ==
    /\ spc = "read"
    /\ IF ok
       THEN /\ existing' = store
            /\ participants' = ResolveParticipants(batch, store)
            /\ spc' = "write"
            /\ UNCHANGED pendingError
       ELSE /\ pendingError' = Escaping("sessions.read")
            /\ spc' = ExitWith(Escaping("sessions.read"))
            /\ UNCHANGED <<existing, participants>>
    /\ UNCHANGED <<batch, store, dispatchable, handledCommand, fidx, typingSent,
                   keepAlive, timerActive, tasks, outbox, dispatchFailures,
                   dispatchThrew, typingShown, nTicks, typingOffSettled, commandCounter, dispatchCall,
                   notSessVars>>

\* lines 204-206: the catch block of persistSession logs and rethrows nothing.
MutCaught(cause) == Escaping(cause)

Caught(cause) == NoError

\* lines 188-207: persistSession; a failed write is caught and logged.
WriteSession(ok) ==
    LET thrown == IF ok THEN NoError ELSE Caught("sessions.write") IN
    /\ spc = "write"
    /\ store' = IF ok THEN <<SessionState(existing, participants, batch)>> ELSE store
    /\ pendingError' = thrown
    /\ spc' = IF thrown = NoError THEN "filter" ELSE ExitWith(thrown)
    /\ UNCHANGED <<batch, existing, participants, dispatchable, handledCommand, fidx,
                   typingSent, keepAlive, timerActive, tasks, outbox,
                   dispatchFailures, dispatchThrew, typingShown, nTicks,
                   typingOffSettled, commandCounter, dispatchCall,
                   notSessVars>>

\* lines 266-275 and 286-320: one event of filterSlashCommands, up to its await.
FilterEvent ==
    /\ spc = "filter"
    /\ fidx <= Len(batch)
    /\ LET e == batch[fidx] IN
       IF ~IsCommand(e)
       THEN /\ dispatchable' = Append(dispatchable, e)
            /\ fidx' = fidx + 1
            /\ UNCHANGED <<spc, handledCommand, outbox, commandCounter>>
       ELSE IF CommandOf(e.text) = "/reset"
       THEN /\ spc' = "await_delete"
            /\ UNCHANGED <<dispatchable, fidx, handledCommand, outbox, commandCounter>>
       ELSE /\ commandCounter' = Inc(commandCounter, CommandLabel(CommandOf(e.text)))
            /\ IF participants.userId /= Absent
               THEN /\ outbox' = Append(outbox, CommandReply(RawCommandOf(e.text)))
                    /\ spc' = "await_command"
                    /\ UNCHANGED <<dispatchable, fidx, handledCommand>>
               ELSE /\ handledCommand' = TRUE
                    /\ fidx' = fidx + 1
                    /\ UNCHANGED <<spc, dispatchable, outbox>>
    /\ UNCHANGED <<batch, store, existing, participants, typingSent, keepAlive,
                   timerActive, tasks, dispatchFailures, dispatchThrew, pendingError,
                   typingShown, nTicks, typingOffSettled, dispatchCall,
                   notSessVars>>

\* line 296: what the store holds for the key once sessions.delete resolved.
MutDeleted(record) == record

Deleted(record) == NoRecord

\* lines 296-301: sessions.delete is awaited outside any try block.
DeleteSettles(ok) ==
    /\ spc = "await_delete"
    /\ IF ~ok
       THEN /\ pendingError' = Escaping("sessions.delete")
            /\ spc' = ExitWith(Escaping("sessions.delete"))
            /\ UNCHANGED <<store, outbox, handledCommand, fidx, commandCounter>>
       ELSE /\ store' = Deleted(store)
            /\ commandCounter' = Inc(commandCounter, "reset")
            /\ UNCHANGED pendingError
            /\ IF participants.userId /= Absent
               THEN /\ outbox' = Append(outbox, CommandReply(RawCommandOf(batch[fidx].text)))
                    /\ spc' = "await_command"
                    /\ UNCHANGED <<handledCommand, fidx>>
               ELSE /\ handledCommand' = TRUE
                    /\ fidx' = fidx + 1
                    /\ spc' = "filter"
                    /\ UNCHANGED outbox
    /\ UNCHANGED <<batch, existing, participants, dispatchable, typingSent,
                   keepAlive, timerActive, tasks, dispatchFailures, dispatchThrew,
                   typingShown, nTicks, typingOffSettled, dispatchCall,
                   notSessVars>>

\* lines 299/306/313 with 380-387: the command reply settles; a failure is
\* caught inside sendTextMessage.
CommandSendSettles(ok) ==
    /\ spc = "await_command"
    /\ handledCommand' = TRUE
    /\ fidx' = fidx + 1
    /\ spc' = "filter"
    /\ UNCHANGED <<batch, store, existing, participants, dispatchable, typingSent,
                   keepAlive, timerActive, tasks, outbox, dispatchFailures,
                   dispatchThrew, pendingError, typingShown, nTicks, typingOffSettled, commandCounter, dispatchCall,
                   notSessVars>>

\* lines 138-154: the early returns, then mark_seen is issued.
FilterDone ==
    /\ spc = "filter"
    /\ fidx > Len(batch)
    /\ IF dispatchable = <<>> \/ participants.userId = Absent
       THEN /\ spc' = "returned"
            /\ UNCHANGED outbox
       ELSE /\ outbox' = Append(outbox, Sent("mark_seen", "processSessionInternal"))
            /\ spc' = "await_mark_seen"
    /\ UNCHANGED <<batch, store, existing, participants, dispatchable, handledCommand,
                   fidx, typingSent, keepAlive, timerActive, tasks,
                   dispatchFailures, dispatchThrew, pendingError, typingShown, nTicks,
                   typingOffSettled, commandCounter, dispatchCall,
                   notSessVars>>

\* line 154 -> 156: mark_seen settles (its result is ignored), typing_on is issued.
MarkSeenSettles(ok) ==
    /\ spc = "await_mark_seen"
    /\ outbox' = Append(outbox, Sent("typing_on", "processSessionInternal"))
    /\ spc' = "await_typing_on"
    /\ UNCHANGED <<batch, store, existing, participants, dispatchable, handledCommand,
                   fidx, typingSent, keepAlive, timerActive, tasks, dispatchFailures,
                   dispatchThrew, pendingError, typingShown, nTicks, typingOffSettled, commandCounter, dispatchCall,
                   notSessVars>>

\* lines 156-171 and dispatcher lines 196-210: typing_on settles, the timer is
\* armed on success, and dispatch runs up to its fetch (or returns at once when
\* the batch yields no user message).
TypingOnSettles(ok) ==
    /\ spc = "await_typing_on"
    /\ typingSent' = ok
    /\ typingShown' = ok
    /\ keepAlive' = ok
    /\ timerActive' = ok
    /\ spc' = IF HasRunInput(dispatchable) THEN "await_fetch" ELSE "dispatch_returned"
    /\ dispatchCall' = IF HasRunInput(dispatchable) THEN "fetch" ELSE "noinput"
    /\ UNCHANGED <<batch, store, existing, participants, dispatchable, handledCommand,
                   fidx, tasks, outbox, dispatchFailures, dispatchThrew, pendingError,
                   nTicks, typingOffSettled, commandCounter, notSessVars>>

HandlerNow == [keepAlive |-> keepAlive, timerActive |-> timerActive,
               tasks |-> tasks, outbox |-> outbox]

\* dispatcher lines 210-219 and 224-235: the request rejects, times out or is
\* answered with a non-2xx status; the catch block calls onRunError (not
\* awaited) and rethrows.
DispatchRejects ==
    /\ spc = "await_fetch"
    /\ SetHandlerState(OnRunError(HandlerNow))
    /\ dispatchThrew' = "fetch"
    /\ spc' = "dispatch_threw"
    /\ UNCHANGED <<batch, store, existing, participants, dispatchable, handledCommand,
                   fidx, typingSent, dispatchFailures, pendingError,
                   typingShown, nTicks, typingOffSettled, commandCounter, dispatchCall,
                   notSessVars>>

\* dispatcher lines 222-235: the body is decoded synchronously; the handlers
\* run up to their first await. A decoder throw lands in the same catch block.
DispatchDecodes(calls, threw) ==
    /\ spc = "await_fetch"
    /\ LET h == ApplyHandlers(HandlerNow, calls) IN
       IF threw
       THEN /\ SetHandlerState(OnRunError(h))
            /\ dispatchThrew' = "decode"
            /\ spc' = "dispatch_threw"
       ELSE /\ SetHandlerState(h)
            /\ spc' = "dispatch_returned"
            /\ UNCHANGED dispatchThrew
    /\ UNCHANGED <<batch, store, existing, participants, dispatchable, handledCommand,
                   fidx, typingSent, dispatchFailures, pendingError,
                   typingShown, nTicks, typingOffSettled, commandCounter, dispatchCall,
                   notSessVars>>

\* line 326
CountFailure(n) == n + 1

\* line 174
MutThrown(cause) == NoError

Thrown(cause) == [name |-> "DispatchError", cause |-> cause]

\* lines 172-174 with 325-329: the catch block counts the failure and sends
\* the apology; the DispatchError is thrown once that send has settled.
CatchDispatch ==
    /\ spc = "dispatch_threw"
    /\ dispatchFailures' = CountFailure(dispatchFailures)
    /\ outbox' = Append(outbox, Sent("error", "handleDispatchFailure"))
    /\ spc' = "await_apology"
    /\ UNCHANGED <<batch, store, existing, participants, dispatchable, handledCommand,
                   fidx, typingSent, keepAlive, timerActive, tasks,
                   dispatchThrew, pendingError, typingShown, nTicks, typingOffSettled, commandCounter, dispatchCall,
                   notSessVars>>

\* lines 176-179
MutFinallyClears(h) == h

FinallyClears(h) == ClearKeepAlive(h)

\* line 180
MutFinallySendsOff(sent) == FALSE

FinallySendsOff(sent) == sent

\* lines 175-181: the finally block up to its await.
FinallyBlock(pending) ==
    LET h == FinallyClears(HandlerNow) IN
    /\ keepAlive' = h.keepAlive
    /\ timerActive' = h.timerActive
    /\ tasks' = h.tasks
    /\ pendingError' = pending
    /\ IF FinallySendsOff(typingSent)
       THEN /\ outbox' = Append(h.outbox, Sent("typing_off", "finally"))
            /\ spc' = "await_final_off"
       ELSE /\ outbox' = h.outbox
            /\ spc' = ExitWith(pending)

\* lines 173-181: the apology settles (or is retried); throw, then finally.
ApologySettles(ok) ==
    /\ spc = "await_apology"
    /\ FinallyBlock(Thrown(dispatchThrew))
    /\ UNCHANGED <<batch, store, existing, participants, dispatchable, handledCommand,
                   fidx, typingSent, dispatchFailures, dispatchThrew, typingShown,
                   nTicks, typingOffSettled, commandCounter, dispatchCall,
                   notSessVars>>

\* lines 171 and 175-181: dispatch resolved; finally.
DispatchReturns ==
    /\ spc = "dispatch_returned"
    /\ FinallyBlock(NoError)
    /\ UNCHANGED <<batch, store, existing, participants, dispatchable, handledCommand,
                   fidx, typingSent, dispatchFailures, dispatchThrew,
                   typingShown, nTicks, typingOffSettled, commandCounter, dispatchCall,
                   notSessVars>>

\* lines 181-185: the final typing_off settles; sent is reset; the call exits.
FinalOffSettles(ok) ==
    /\ spc = "await_final_off"
    /\ typingSent' = FALSE
    /\ typingOffSettled' = TRUE
    /\ spc' = ExitWith(pendingError)
    /\ UNCHANGED <<batch, store, existing, participants, dispatchable, handledCommand,
                   fidx, keepAlive, timerActive, tasks, outbox, dispatchFailures,
                   dispatchThrew, pendingError, typingShown, nTicks, commandCounter, dispatchCall,
                   notSessVars>>

\* ---- Handler invocations nobody awaits, and the keep-alive timer ---------

\* lines 158-160: a keep-alive tick issues typing_on and is not awaited.
Tick ==
    /\ timerActive
    /\ nTicks < MaxTicks
    /\ nTicks' = nTicks + 1
    /\ outbox' = Append(outbox, Sent("typing_on", "keepAlive"))
    /\ tasks' = tasks (+) SetToBag({Task("keepAlive", "typing_on", 1)})
    /\ UNCHANGED <<batch, store, spc, existing, participants, dispatchable,
                   handledCommand, fidx, typingSent, keepAlive, timerActive,
                   dispatchFailures, dispatchThrew, pendingError, typingShown,
                   typingOffSettled, commandCounter, dispatchCall,
                   notSessVars>>

\* The continuation of a suspended handler once its send has settled:
\* lines 229-231 (onRunFinished), 236-245 (onRunError), 369-388 (the chunk
\* loop of sendTextMessage under onAssistantMessage), 159 (keep-alive).
TaskSettles(t, ok) ==
    /\ BagIn(t, tasks)
    /\ LET rest == tasks (-) SetToBag({t})
           again(u) == rest (+) SetToBag({u})
       IN
       IF t.awaiting = "typing_off"
       THEN /\ tasks' = rest
            /\ typingSent' = FALSE
            /\ typingOffSettled' = TRUE
            /\ UNCHANGED <<keepAlive, timerActive, outbox>>
       ELSE IF t.handler = "onRunError"
       THEN /\ keepAlive' = FALSE
            /\ timerActive' = IF keepAlive THEN FALSE ELSE timerActive
            /\ IF typingSent
               THEN /\ outbox' = Append(outbox, Sent("typing_off", "onRunError"))
                    /\ tasks' = again(Task("onRunError", "typing_off", 1))
               ELSE /\ tasks' = rest
                    /\ UNCHANGED outbox
            /\ UNCHANGED <<typingSent, typingOffSettled>>
       ELSE IF t.handler = "onAssistantMessage" /\ ok /\ t.chunksLeft > 1
       THEN /\ outbox' = Append(outbox, Sent("assistant", "onAssistantMessage"))
            /\ tasks' = again(Task("onAssistantMessage", "assistant", t.chunksLeft - 1))
            /\ UNCHANGED <<typingSent, keepAlive, timerActive, typingOffSettled>>
       ELSE /\ tasks' = rest
            /\ UNCHANGED <<typingSent, keepAlive, timerActive, outbox, typingOffSettled>>
    /\ UNCHANGED <<batch, store, spc, existing, participants, dispatchable,
                   handledCommand, fidx, dispatchFailures, dispatchThrew,
                   pendingError, typingShown, nTicks, commandCounter, dispatchCall,
                   notSessVars>>

\* One processSessionInternal call on a batch of one session's events, against
\* a store that may or may not hold a record for the session.
InitSession ==
    /\ LockIdle
    /\ HelpersIdle
    /\ DecoderIdle
    /\ batch \in Batches
    /\ store \in StoredRecords
    /\ spc = "read"
    /\ existing = NoRecord
    /\ participants = [userId |-> Absent, pageId |-> Absent]
    /\ dispatchable = <<>>
    /\ handledCommand = FALSE
    /\ fidx = 1
    /\ typingSent = FALSE
    /\ keepAlive = FALSE
    /\ timerActive = FALSE
    /\ tasks = EmptyBag
    /\ outbox = <<>>
    /\ dispatchFailures = 0
    /\ dispatchThrew = "none"
    /\ pendingError = NoError
    /\ typingShown = FALSE
    /\ nTicks = 0
    /\ typingOffSettled = FALSE
    /\ commandCounter = NoCommands
    /\ dispatchCall = "none"

\* The whole call is explored with answers of at most one handler invocation
\* whose text fits one chunk; SpecDispatch explores the dispatch phase with
\* every answer in HandlerSeqs.
ShortAnswers ==
    { calls \in HandlerSeqs : Len(calls) <= 1 /\ \A i \in DOMAIN calls : calls[i].chunks = 1 }

NextSession ==
    \/ \E ok \in BOOLEAN : ReadSession(ok)
    \/ \E ok \in BOOLEAN : WriteSession(ok)
    \/ FilterEvent
    \/ \E ok \in BOOLEAN : DeleteSettles(ok)
    \/ \E ok \in BOOLEAN : CommandSendSettles(ok)
    \/ FilterDone
    \/ \E ok \in BOOLEAN : MarkSeenSettles(ok)
    \/ \E ok \in BOOLEAN : TypingOnSettles(ok)
    \/ DispatchRejects
    \/ \E calls \in ShortAnswers, threw \in BOOLEAN : DispatchDecodes(calls, threw)
    \/ CatchDispatch
    \/ \E ok \in BOOLEAN : ApologySettles(ok)
    \/ DispatchReturns
    \/ \E ok \in BOOLEAN : FinalOffSettles(ok)
    \/ Tick
    \/ \E t \in BagToSet(tasks), ok \in BOOLEAN : TaskSettles(t, ok)

SpecSession == InitSession /\ [][NextSession]_vars

\* ---- The dispatch phase on its own ---------------------------------------

\* Batches that reach line 152: no command, sender known.
DispatchBatches ==
    { b \in Batches : Len(b) = 1 /\ ~IsCommand(b[1]) /\ b[1].senderId /= Absent }

\* The state in which filterSlashCommands returns (line 132) for such a batch
\* of a session without a stored record, the write of line 203 having succeeded.
InitDispatch ==
    /\ LockIdle
    /\ HelpersIdle
    /\ DecoderIdle
    /\ batch \in DispatchBatches
    /\ existing = NoRecord
    /\ participants = ResolveParticipants(batch, NoRecord)
    /\ store = <<SessionState(NoRecord, participants, batch)>>
    /\ spc = "filter"
    /\ dispatchable = batch
    /\ handledCommand = FALSE
    /\ fidx = Len(batch) + 1
    /\ typingSent = FALSE
    /\ keepAlive = FALSE
    /\ timerActive = FALSE
    /\ tasks = EmptyBag
    /\ outbox = <<>>
    /\ dispatchFailures = 0
    /\ dispatchThrew = "none"
    /\ pendingError = NoError
    /\ typingShown = FALSE
    /\ nTicks = 0
    /\ typingOffSettled = FALSE
    /\ commandCounter = NoCommands
    /\ dispatchCall = "none"

NextDispatch ==
    \/ FilterDone
    \/ \E ok \in BOOLEAN : MarkSeenSettles(ok)
    \/ \E ok \in BOOLEAN : TypingOnSettles(ok)
    \/ DispatchRejects
    \/ \E calls \in HandlerSeqs, threw \in BOOLEAN : DispatchDecodes(calls, threw)
    \/ CatchDispatch
    \/ \E ok \in BOOLEAN : ApologySettles(ok)
    \/ DispatchReturns
    \/ \E ok \in BOOLEAN : FinalOffSettles(ok)
    \/ Tick
    \/ \E t \in BagToSet(tasks), ok \in BOOLEAN : TaskSettles(t, ok)

SpecDispatch == InitDispatch /\ [][NextDispatch]_vars

(***************************************************************************)
(* Properties of the dispatch phase                                        *)
(***************************************************************************)
Exits == {"returned", "DispatchError", "Error"}

\* processSessionInternal has returned or thrown.
Exited == spc \in Exits

\* The positions of the outbox holding a send of this kind.
SendsOf(kind) == { i \in DOMAIN outbox : outbox[i].kind = kind }

\* The positions of the outbox holding a send issued by this piece of code.
SendsBy(by) == { i \in DOMAIN outbox : outbox[i].by = by }

\* C6: whenever the typing_on of the call succeeded, by the time the call has
\* returned or thrown a typing_off send has been issued and has settled,
\* whichever way the call ends.
C6_TypingOffOnEveryExit ==
    (Exited /\ typingShown) => (typingOffSettled /\ SendsOf("typing_off") /= {})

\* The run ended with neither RUN_FINISHED nor RUN_ERROR and dispatch did not
\* throw: the finally block alone turned the indicator off.
C6_Witness ==
    /\ spc = "returned" /\ typingShown /\ dispatchThrew = "none"
    /\ SendsBy("onRunFinished") = {} /\ SendsBy("onRunError") = {}
    /\ SendsOf("typing_off") = SendsBy("finally")
    /\ SendsBy("finally") /= {}
    /\ typingOffSettled

\* C7: one dispatch issues at most one typing_off, whichever of onRunFinished,
\* onRunError and the finally block fire and however they interleave.
C7_AtMostOneTypingOff == Cardinality(SendsOf("typing_off")) <= 1

\* C8: once the call has returned or thrown, the interval it created is no
\* longer scheduled and typingState.keepAlive is unset.
C8_NoTimerAfterExit == Exited => (~timerActive /\ ~keepAlive)

\* The timer was armed, ticked, no handler cleared it, and the call has exited.
C8_Witness ==
    /\ Exited /\ typingShown /\ nTicks > 0
    /\ SendsBy("onRunFinished") = {} /\ SendsBy("onRunError") = {}
    /\ ~timerActive

\* C9: when dispatcher.dispatch has thrown, the call ends by throwing a
\* DispatchError whose cause is that failure, the apology has been sent by
\* handleDispatchFailure, and dispatchFailures was incremented exactly once.
C9_DispatchFailureReported ==
    (Exited /\ dispatchThrew /= "none") =>
        /\ spc = "DispatchError"
        /\ pendingError = [name |-> "DispatchError", cause |-> dispatchThrew]
        /\ Sent("error", "handleDispatchFailure") \in { outbox[i] : i \in DOMAIN outbox }
        /\ dispatchFailures = 1

\* The request was rejected and the call has thrown.
C9_Witness ==
    /\ spc = "DispatchError" /\ dispatchThrew = "fetch"
    /\ dispatchFailures = 1
    /\ SendsBy("handleDispatchFailure") /= {}

\* C10: whatever escapes the call is a DispatchError raised because
\* dispatcher.dispatch failed, and the apology was sent before it was thrown;
\* no other step makes the call throw.
C10_OnlyDispatchErrorEscapes ==
    (spc \in Exits \ {"returned"}) =>
        /\ spc = "DispatchError"
        /\ dispatchThrew /= "none"
        /\ SendsBy("handleDispatchFailure") /= {}

(***************************************************************************)
(* Properties of the whole call                                            *)
(***************************************************************************)

\* C11: a rejected sessions.read does not make the call fail; it is treated
\* as "no prior record" and processing continues.
C11_ReadFailureNotFatal ==
    ~(Exited /\ spc /= "returned" /\ pendingError.cause = "sessions.read")

\* The causes that make the call throw.
FatalCauses == {"sessions.read", "sessions.delete", "fetch", "decode"}

\* C12: a failed session write, presence action or text send never makes the
\* call throw, and never keeps dispatcher.dispatch from being invoked for the
\* events left to dispatch.
C12_SideChannelsNeverAbort ==
    /\ (Exited /\ spc /= "returned") => pendingError.cause \in FatalCauses
    /\ (spc = "returned" /\ dispatchable /= <<>> /\ participants.userId /= Absent)
          => dispatchCall /= "none"

\* The write failed (nothing is stored although no /reset ran), typing_on
\* failed, and the agent was still called and the call returned.
C12_Witness ==
    /\ spc = "returned"
    /\ store = NoRecord /\ existing = NoRecord /\ commandCounter["reset"] = 0
    /\ SendsOf("typing_on") /= {} /\ ~typingShown
    /\ dispatchCall = "fetch"

\* A message the user wrote (not an echo of the page's own message), or a postback.
UserOriginated(e) == e.type = "postback" \/ (e.type = "message" /\ ~e.isEcho)

\* The kinds of outbound text sends.
TextKinds == {"assistant", "command", "error"}

\* C13: a call for a batch holding a user-originated message or postback has
\* issued at least one outbound text send (reply, command reply or apology)
\* by the time it returns or throws.
C13_NeverSilent ==
    (Exited /\ \E i \in DOMAIN batch : UserOriginated(batch[i]))
        => \E kind \in TextKinds : SendsOf(kind) /= {}

\* A send that is not a keep-alive tick.
NotTick(sent) == sent.by /= "keepAlive"

\* The place of a send in the order mark_seen, typing_on, text, typing_off.
Rank(kind) ==
    CASE kind = "mark_seen" -> 1
      [] kind = "typing_on" -> 2
      [] kind = "typing_off" -> 4
      [] OTHER -> 3

\* dispatcher.dispatch has not thrown and no handler has reported a run error.
SuccessfulDispatch == dispatchThrew = "none" /\ SendsOf("error") = {}

\* C14: in a successful dispatch, keep-alive ticks aside, the sends of the
\* call are mark_seen, then typing_on, then the assistant text chunks, then
\* one typing_off, which is the last send.
C14_SendsInOrder ==
    LET sends == SelectSeq(outbox, NotTick) IN
    SuccessfulDispatch =>
        /\ \A i, j \in DOMAIN sends :
              i < j => Rank(sends[i].kind) <= Rank(sends[j].kind)
        /\ Cardinality(SendsOf("typing_off")) <= 1

\* The batch is a single echoed message.
EchoOnly == Len(batch) = 1 /\ batch[1].type = "message" /\ batch[1].isEcho

\* The sender actions.
PresenceKinds == {"mark_seen", "typing_on", "typing_off"}

\* C15: for a batch whose only event is an echo, no user message results, no
\* sender action is sent and no request is made to the agent.
C15_EchoSkipsDispatch ==
    EchoOnly =>
        /\ ~HasRunInput(batch)
        /\ dispatchCall /= "fetch"
        /\ \A kind \in PresenceKinds : SendsOf(kind) = {}

\* The batch is the single text "/reset" sent by u1.
ResetOnly ==
    /\ Len(batch) = 1
    /\ IsCommand(batch[1]) /\ CommandOf(batch[1].text) = "/reset"
    /\ batch[1].senderId = "u1"

\* C16: when the call for such a batch returns, the store holds no record
\* for the key, dispatcher.dispatch was not invoked, the reset counter was
\* incremented and the confirmation text was sent.
C16_ResetDeletesRecord ==
    (ResetOnly /\ spc = "returned") =>
        /\ store = NoRecord
        /\ dispatchCall = "none"
        /\ commandCounter = Inc(NoCommands, "reset")
        /\ outbox = <<CommandReply("/reset")>>

\* A record existed before the pass, was rewritten by it, and is gone.
C16_Witness ==
    /\ ResetOnly /\ spc = "returned"
    /\ existing /= NoRecord
    /\ store = NoRecord
    /\ SendsOf("command") /= {}

(***************************************************************************)
(* filterSlashCommands on its own, over every kind of event                *)
(***************************************************************************)

\* Events of every type and kind, with texts that do and do not start with '/'.
FilterEvents ==
    { InboundEvent("message", "text", <<"hello">>, FALSE, "u1", "p1"),
      InboundEvent("message", "text", <<"hello", " ", "/reset">>, FALSE, "u1", "p1"),
      InboundEvent("message", "text", <<" ">>, FALSE, "u1", "p1"),
      InboundEvent("message", "text", <<"/foo", " ", "bar">>, FALSE, "u1", "p1"),
      InboundEvent("message", "text", <<"/help">>, FALSE, "u1", "p1"),
      InboundEvent("message", "text", <<"/RESET">>, FALSE, "u1", "p1"),
      InboundEvent("message", "text", <<" ", "/reset">>, FALSE, "u1", "p1"),
      InboundEvent("message", "quick_reply", <<"/help">>, FALSE, "u1", "p1"),
      InboundEvent("message", "attachments", <<>>, FALSE, "u1", "p1"),
      InboundEvent("postback", Absent, <<>>, FALSE, "u1", "p1"),
      InboundEvent("unknown", Absent, <<>>, FALSE, Absent, Absent) }

FilterBatches == UNION { [1..n -> FilterEvents] : n \in 1..MaxBatch }

\* The state in which filterSlashCommands is entered (line 132) for a session
\* without a stored record, the write of line 203 having succeeded.
InitFilter ==
    /\ LockIdle
    /\ HelpersIdle
    /\ DecoderIdle
    /\ batch \in FilterBatches
    /\ existing = NoRecord
    /\ participants = ResolveParticipants(batch, NoRecord)
    /\ store = <<SessionState(NoRecord, participants, batch)>>
    /\ spc = "filter"
    /\ dispatchable = <<>>
    /\ handledCommand = FALSE
    /\ fidx = 1
    /\ typingSent = FALSE
    /\ keepAlive = FALSE
    /\ timerActive = FALSE
    /\ tasks = EmptyBag
    /\ outbox = <<>>
    /\ dispatchFailures = 0
    /\ dispatchThrew = "none"
    /\ pendingError = NoError
    /\ typingShown = FALSE
    /\ nTicks = 0
    /\ typingOffSettled = FALSE
    /\ commandCounter = NoCommands
    /\ dispatchCall = "none"

NextFilter ==
    \/ FilterEvent
    \/ \E ok \in BOOLEAN : DeleteSettles(ok)
    \/ \E ok \in BOOLEAN : CommandSendSettles(ok)

SpecFilter == InitFilter /\ [][NextFilter]_vars

\* The first whitespace-delimited token of a text, or Absent if it has none.
FirstToken(text) ==
    LET words == { i \in DOMAIN text : ~IsSpace(text[i]) } IN
    IF words = {} THEN Absent
    ELSE text[CHOOSE i \in words : \A j \in words : i <= j]

\* A text message whose first token starts with '/'.
SlashText(e) == e.type = "message" /\ e.kind = "text" /\ FirstToken(e.text) \in SlashWords

\* ... and that token is neither /reset nor /help, in any case.
UnknownCommand(e) ==
    SlashText(e) /\ ToLowerCase(FirstToken(e.text)) \notin {"/reset", "/help"}

\* The events filterSlashCommands is done with, by position.
Filtered == IF spc = "filter" THEN 1..(fidx - 1) ELSE {}

\* The reply to an unknown command: the rejection, then the help text.
UnknownReply(e) ==
    [kind |-> "command", by |-> "tryHandleSlashCommand",
     text |-> <<"Unknown command: ", FirstToken(e.text), "SLASH_HELP_MESSAGE">>]

\* C17: every text message whose first token starts with '/' and is neither
\* /reset nor /help is answered with one unknown-command reply followed by
\* the help text, counted under 'unknown', and kept out of dispatchable.
C17_UnknownCommandHandled ==
    LET unknown == { i \in Filtered : UnknownCommand(batch[i]) } IN
    spc = "filter" =>
        /\ commandCounter["unknown"] = Cardinality(unknown)
        /\ \A i \in unknown :
              /\ \A j \in DOMAIN dispatchable : dispatchable[j] /= batch[i]
              /\ Cardinality({ k \in DOMAIN outbox : outbox[k] = UnknownReply(batch[i]) })
                    = Cardinality({ j \in unknown : batch[j] = batch[i] })

\* "/foo bar" has been handled.
C17_Witness ==
    /\ spc = "filter" /\ fidx = 2
    /\ batch[1].text = <<"/foo", " ", "bar">>
    /\ commandCounter["unknown"] = 1
    /\ dispatchable = <<>>
    /\ outbox = <<UnknownReply(batch[1])>>

\* The text starts with '/' (no trimming).
StartsWithSlash(text) == text /= <<>> /\ Head(text) \in SlashWords

RECURSIVE Keep(_, _, _)
\* The events of positions 1..n of the batch that are not command texts,
\* in order; literal: '/' must be the very first character.
Keep(n, literal, events) ==
    IF n > Len(events) \/ n < 1 THEN <<>>
    ELSE LET e == events[n]
             isText == e.type = "message" /\ e.kind = "text"
             slash == IF literal THEN StartsWithSlash(e.text) ELSE SlashText(e)
             before == IF n = 1 THEN <<>> ELSE Keep(n - 1, literal, events)
         IN IF isText /\ slash THEN before ELSE Append(before, e)

\* C18 as stated: dispatchable is exactly the events that are not text
\* messages starting with '/', unmodified and in order.
C18_PassThroughLiteral ==
    (spc = "filter") => dispatchable = Keep(fidx - 1, TRUE, batch)

\* C18 amended: ... that are not text messages whose trimmed text starts
\* with '/'; non-text events are never treated as commands.
C18_PassThroughTrimmed ==
    (spc = "filter") => dispatchable = Keep(fidx - 1, FALSE, batch)

\* A quick reply carrying "/help" and a plain text passed through, in order.
C18_Witness ==
    /\ spc = "filter" /\ fidx = 3
    /\ batch[1].kind = "quick_reply" /\ batch[1].text = <<"/help">>
    /\ batch[2].text = <<"hello", " ", "/reset">>
    /\ dispatchable = batch
    /\ ~handledCommand

(***************************************************************************)
(* The read and the write of one pass, over every shape of prior record    *)
(***************************************************************************)

\* Events that do and do not name the user and the page.
PersistEvents ==
    { InboundEvent("message", "text", <<"hello">>, FALSE, "u1", "p1"),
      InboundEvent("message", "text", <<"hello">>, FALSE, Absent, Absent),
      InboundEvent("postback", Absent, <<>>, FALSE, "u1", Absent),
      InboundEvent("postback", Absent, <<>>, FALSE, Absent, Absent),
      InboundEvent("unknown", Absent, <<>>, FALSE, Absent, Absent) }

PersistBatches == UNION { [1..n -> PersistEvents] : n \in 1..MaxBatch }

\* No record, or a record with any of its fields known or unknown.
PriorRecords ==
    { NoRecord } \cup
    { <<[runId |-> r, userId |-> u, pageId |-> pg, lastEventTimestamp |-> 0]>> :
        r \in {Absent, "r0"}, u \in {Absent, "u0"}, pg \in {Absent, "p0"} }

InitPersist ==
    /\ LockIdle
    /\ HelpersIdle
    /\ DecoderIdle
    /\ batch \in PersistBatches
    /\ store \in PriorRecords
    /\ spc = "read"
    /\ existing = NoRecord
    /\ participants = [userId |-> Absent, pageId |-> Absent]
    /\ dispatchable = <<>>
    /\ handledCommand = FALSE
    /\ fidx = 1
    /\ typingSent = FALSE
    /\ keepAlive = FALSE
    /\ timerActive = FALSE
    /\ tasks = EmptyBag
    /\ outbox = <<>>
    /\ dispatchFailures = 0
    /\ dispatchThrew = "none"
    /\ pendingError = NoError
    /\ typingShown = FALSE
    /\ nTicks = 0
    /\ typingOffSettled = FALSE
    /\ commandCounter = NoCommands
    /\ dispatchCall = "none"

NextPersist ==
    \/ \E ok \in BOOLEAN : ReadSession(ok)
    \/ \E ok \in BOOLEAN : WriteSession(ok)

SpecPersist == InitPersist /\ [][NextPersist]_vars

\* What the batch supplies for a participant field: the sender/recipient of
\* its first message, or of its first postback that names a sender.
Supplied(events, field) ==
    LET naming == { i \in DOMAIN events :
                      \/ events[i].type = "message"
                      \/ events[i].type = "postback" /\ events[i].senderId /= Absent }
    IN IF naming = {} THEN Absent
       ELSE events[CHOOSE i \in naming : \A j \in naming : i <= j][field]

\* C19: the record a pass has written (the store differs from what was read
\* only once the write of line 203 has succeeded) keeps every field of the prior record;
\* userId and pageId keep their prior value when the batch supplies none, take
\* the supplied value otherwise, and a known value never becomes undefined.
C19_MergeKeepsKnownFields ==
    (spc = "filter" /\ store /= existing) =>
        /\ FieldOf(store, "runId") = FieldOf(existing, "runId")
        /\ FieldOf(store, "userId") =
              Coalesce(Supplied(batch, "senderId"), FieldOf(existing, "userId"))
        /\ FieldOf(store, "pageId") =
              Coalesce(Supplied(batch, "recipientId"), FieldOf(existing, "pageId"))
        /\ \A f \in {"runId", "userId", "pageId"} :
              FieldOf(existing, f) /= Absent => FieldOf(store, f) /= Absent
        /\ store[1].lastEventTimestamp = batch[Len(batch)].timestamp

\* A record with known ids was rewritten by a batch that names nobody.
C19_Witness ==
    /\ spc = "filter"
    /\ Supplied(batch, "senderId") = Absent /\ Supplied(batch, "recipientId") = Absent
    /\ existing /= NoRecord /\ store /= existing
    /\ FieldOf(store, "userId") = "u0" /\ FieldOf(store, "pageId") = "p0"
    /\ FieldOf(store, "runId") = "r0"
    /\ FieldOf(store, "lastEventTimestamp") = 1

(***************************************************************************)
(* Overlapping processSession calls and the session store                  *)
(***************************************************************************)

\* The bug "the read is served from a copy taken when the call was queued".
MutLoaded(c) == IF previous[c] = None THEN records[callKey[c]] ELSE loaded[previous[c]]

\* line 127: sessions.read(sessionId) returns the record the store holds now.
Loaded(c) == records[callKey[c]]

\* line 127: the task of call c reads its session record.
TaskReads(c) ==
    /\ lpc[c] = "body"
    /\ bpc[c] = "read"
    /\ loaded' = [loaded EXCEPT ![c] = Loaded(c)]
    /\ bpc' = [bpc EXCEPT ![c] = "write"]
    /\ UNCHANGED <<records, lockVars, notBodyVars>>

\* lines 130, 195-206: persistSession; a rejected write is caught and logged.
TaskWrites(c, ok) ==
    /\ lpc[c] = "body"
    /\ bpc[c] = "write"
    /\ records' = IF ok THEN [records EXCEPT ![callKey[c]] = c] ELSE records
    /\ bpc' = [bpc EXCEPT ![c] = IF ok THEN "wrote" ELSE "unwritten"]
    /\ UNCHANGED <<loaded, lockVars, notBodyVars>>

\* line 296: a `/reset` in the batch deletes the record of the key.
TaskResets(c) ==
    /\ lpc[c] = "body"
    /\ bpc[c] \in {"wrote", "unwritten"}
    /\ records' = [records EXCEPT ![callKey[c]] = None]
    /\ bpc' = [bpc EXCEPT ![c] = "reset"]
    /\ UNCHANGED <<loaded, lockVars, notBodyVars>>

\* lines 123-185: task() settles. Before the read has returned it can only
\* reject (sessions.read threw); once the read has returned, persistSession
\* is always run to its end before anything else can end the call.
TaskSettlesAs(c, outcome) ==
    /\ bpc[c] /= "write"
    /\ bpc[c] = "read" => outcome = "Error"
    /\ FinishTask(c, outcome)

InitOverlap == LockIdle /\ DecoderIdle /\ SessionIdle /\ HelpersIdle

\* The deliveries of the overlap specification: calls 1..MaxOverlap arrive,
\* each for any key, at any time relative to the steps of the others.
OverlapCalls == 1..MaxOverlap

NextOverlap ==
    \/ \E c \in OverlapCalls, k \in Keys : EnterLock(c, k)
    \/ \E c \in OverlapCalls : StartTask(c)
    \/ \E c \in OverlapCalls : TaskReads(c)
    \/ \E c \in OverlapCalls, ok \in BOOLEAN : TaskWrites(c, ok)
    \/ \E c \in OverlapCalls : TaskResets(c)
    \/ \E c \in OverlapCalls, o \in TaskOutcomes : TaskSettlesAs(c, o)

SpecOverlap == InitOverlap /\ [][NextOverlap]_vars

\* Call c found the chain of an unfinished call of its key when it entered.
Overlapped(c) == previous[c] /= None

\* Call c has done its read of line 127.
HasRead(c) == lpc[c] /= "idle" /\ bpc[c] /= "read"

\* C20: a call that queued behind another call of its key reads only after
\* that call has finished, and when that call's write succeeded and it did not
\* /reset, the record the later call loaded is the one the earlier call wrote.
C20_SecondLoadsFirstsRecord ==
    \A c \in Calls :
        (Overlapped(c) /\ HasRead(c)) =>
            /\ Finished(previous[c])
            /\ bpc[previous[c]] = "wrote" => loaded[c] = previous[c]

\* The second call queued while the first was still running, the first wrote
\* and returned, and the second loaded the first's record.
C20_Witness ==
    /\ previous[2] = 1
    /\ bpc[1] = "wrote"
    /\ HasRead(2)
    /\ loaded[2] = 1

(***************************************************************************)
(* chunkText                                                               *)
(***************************************************************************)
MaxText == 5
MaxLimit == 3

\* The characters texts are made of: two letters, the blank and the tab.
Chars == {"a", "b", " ", "\t"}

Texts == UNION { [1..n -> Chars] : n \in 0..MaxText }

Limits == 1..MaxLimit

\* String.prototype.lastIndexOf(ch, fromIndex), 0-based, -1 if there is none.
LastIndexOf(t, ch, fromIndex) ==
    LET hits == { i \in 0..(Len(t) - 1) : i <= fromIndex /\ t[i + 1] = ch } IN
    IF hits = {} THEN -1 ELSE CHOOSE i \in hits : \A j \in hits : j <= i

\* String.prototype.slice(from, to) and slice(from), 0-based, 0 <= from <= to.
Slice(t, from, to) == SubSeq(t, from + 1, IF to < Len(t) THEN to ELSE Len(t))

SliceFrom(t, from) == SubSeq(t, from + 1, Len(t))

\* lines 521-524: where the loop cuts `remaining`.
SplitIndex(t, limit) ==
    IF LastIndexOf(t, " ", limit) = -1 THEN limit ELSE LastIndexOf(t, " ", limit)

\* lines 516-518: a text within the limit is returned as it is.
ChunkShort ==
    /\ cpc = "entry"
    /\ Len(source) <= maxLength
    /\ chunked' = <<source>>
    /\ cpc' = "returned"
    /\ UNCHANGED <<source, maxLength, remaining, notChunkVars>>

\* lines 520-521: the locals of the long path.
ChunkLong ==
    /\ cpc = "entry"
    /\ Len(source) > maxLength
    /\ chunked' = <<>>
    /\ remaining' = source
    /\ cpc' = "loop"
    /\ UNCHANGED <<source, maxLength, notChunkVars>>

\* lines 523-533: one iteration of the loop; an empty chunk leaves the loop.
ChunkIteration ==
    /\ cpc = "loop"
    /\ Len(remaining) > maxLength
    /\ LET splitIndex == SplitIndex(remaining, maxLength)
           chunk == Trim(Slice(remaining, 0, splitIndex))
       IN IF chunk = <<>>
          THEN /\ cpc' = "tail"
               /\ UNCHANGED <<remaining, chunked>>
          ELSE /\ chunked' = Append(chunked, chunk)
               /\ remaining' = TrimStart(SliceFrom(remaining, splitIndex))
               /\ cpc' = "loop"
    /\ UNCHANGED <<source, maxLength, notChunkVars>>

\* lines 523, 536-540: the loop is over; what is left is the last chunk.
ChunkTail ==
    /\ \/ cpc = "tail"
       \/ cpc = "loop" /\ Len(remaining) <= maxLength
    /\ chunked' = IF Len(remaining) > 0 THEN Append(chunked, remaining) ELSE chunked
    /\ cpc' = "returned"
    /\ UNCHANGED <<source, maxLength, remaining, notChunkVars>>

\* chunkText is called with any text and any limit.
InitChunk ==
    /\ source \in Texts
    /\ maxLength \in Limits
    /\ remaining = <<>>
    /\ chunked = <<>>
    /\ cpc = "entry"
    /\ LockIdle /\ DecoderIdle /\ SessionIdle /\ SendIdle /\ HttpIdle /\ HookIdle

NextChunk ==
    \/ ChunkShort
    \/ ChunkLong
    \/ ChunkIteration
    \/ ChunkTail

SpecChunk == InitChunk /\ [][NextChunk]_vars

\* C21: every chunk chunkText returns has a length between 1 and the limit.
C21_ChunksWithinLimit ==
    cpc = "returned" =>
        \A i \in DOMAIN chunked : 1 <= Len(chunked[i]) /\ Len(chunked[i]) <= maxLength

\* The characters of a text that are not white space, in order.
NonWhiteSpace(t) == SelectSeq(t, LAMBDA ch : ~IsSpace(ch))

RECURSIVE Concatenation(_)
\* The chunks of a list, joined in order with nothing between them.
Concatenation(list) ==
    IF list = <<>> THEN <<>> ELSE Head(list) \o Concatenation(Tail(list))

\* Every character of the text is white space.
Blank(t) == \A i \in DOMAIN t : IsSpace(t[i])

RECURSIVE CutsOf(_, _)
\* The text is the chunks in order, each followed by the (possibly empty) run
\* of white space that was consumed at the cut after it.
CutsOf(t, list) ==
    IF list = <<>> THEN t = <<>>
    ELSE LET c == Head(list) IN
         /\ Len(c) <= Len(t)
         /\ SubSeq(t, 1, Len(c)) = c
         /\ \E k \in 0..(Len(t) - Len(c)) :
               /\ Blank(SubSeq(t, Len(c) + 1, Len(c) + k))
               /\ CutsOf(SubSeq(t, Len(c) + k + 1, Len(t)), Tail(list))

\* C22: the chunks hold the non-white-space characters of the text once each
\* and in order, a text within the limit comes back as the single unchanged
\* chunk, and the only characters dropped are white space at the cut points.
C22_OnlyCutWhiteSpaceDropped ==
    cpc = "returned" =>
        /\ NonWhiteSpace(Concatenation(chunked)) = NonWhiteSpace(source)
        /\ Len(source) <= maxLength => chunked = <<source>>
        /\ CutsOf(source, chunked)

(***************************************************************************)
(* sendTextMessage, sendTypingAction and executeWithRetry                  *)
(***************************************************************************)
MaxParts == 3

\* line 381 and line 347: the `attempts` argument of the two callers.
TextAttempts == 3
ActionAttempts == 2

AttemptsOf(kind) == IF kind = "text" THEN TextAttempts ELSE ActionAttempts

\* The bug "a resolved operation() does not leave the loop".
MutAfterAttempt(ok, n, limit) ==
    IF n = limit THEN (IF ok THEN "returned" ELSE "threw") ELSE "delay"

\* lines 429-437: `return await operation()`, or the catch block, which
\* leaves the loop after the last attempt and waits before any other.
AfterAttempt(ok, n, limit) ==
    IF ok THEN "returned" ELSE IF n = limit THEN "threw" ELSE "delay"

\* The bug "the catch block of the chunk loop does not break".
MutAfterChunkError(i, n) == i + 1

\* lines 384-386: `break` leaves the for-of loop, past the last chunk.
AfterChunkError(i, n) == n + 1

\* line 426-428: executeWithRetry is entered.
CallWithRetry(limit) ==
    /\ attempts' = limit
    /\ attempt' = 1
    /\ rpc' = "attempt"

\* lines 358-367: the guard of sendTextMessage and the chunking of the text.
SendTextEntry ==
    /\ mpc = "entry"
    /\ sendKind = "text"
    /\ IF recipient = Absent \/ blankText
       THEN /\ mpc' = "returned"
            /\ UNCHANGED <<attempts, attempt, rpc>>
       ELSE /\ mpc' = "sending"
            /\ CallWithRetry(AttemptsOf("text"))
    /\ UNCHANGED <<sendKind, recipient, blankText, nChunks, pidx, invocations,
                   lastError, delays, sendResult, outboundMessages, notSendVars>>

\* lines 332-347: the guard of sendTypingAction and its one send.
SendActionEntry ==
    /\ mpc = "entry"
    /\ sendKind = "action"
    /\ IF recipient = Absent
       THEN /\ mpc' = "returned"
            /\ UNCHANGED <<attempts, attempt, rpc>>
       ELSE /\ mpc' = "sending"
            /\ CallWithRetry(AttemptsOf("action"))
    /\ UNCHANGED <<sendKind, recipient, blankText, nChunks, pidx, invocations,
                   lastError, delays, sendResult, outboundMessages, notSendVars>>

\* lines 428-433: operation() is invoked and settles.
Attempt(ok) ==
    /\ rpc = "attempt"
    /\ invocations' = Append(invocations, [item |-> pidx, attempt |-> attempt, ok |-> ok])
    /\ lastError' = IF ok THEN lastError ELSE [item |-> pidx, attempt |-> attempt]
    /\ rpc' = AfterAttempt(ok, attempt, attempts)
    /\ UNCHANGED <<sendKind, recipient, blankText, nChunks, pidx, attempts, attempt,
                   delays, mpc, sendResult, outboundMessages, notSendVars>>

\* lines 437, 428, 440: the delay, the loop's increment and its test.
Delay ==
    /\ rpc = "delay"
    /\ delays' = Append(delays, 100 * attempt)
    /\ attempt' = attempt + 1
    /\ rpc' = IF attempt + 1 <= attempts THEN "attempt" ELSE "threw"
    /\ UNCHANGED <<sendKind, recipient, blankText, nChunks, pidx, attempts,
                   invocations, lastError, mpc, sendResult, outboundMessages, notSendVars>>

\* The loop of sendTextMessage goes on at chunk i, or is over.
Continue(i) ==
    /\ pidx' = i
    /\ IF sendKind = "text" /\ i <= nChunks
       THEN /\ mpc' = "sending"
            /\ CallWithRetry(AttemptsOf("text"))
       ELSE /\ mpc' = "returned"
            /\ rpc' = "idle"
            /\ UNCHANGED <<attempts, attempt>>

\* lines 347-349 and 381-382: executeWithRetry returned.
Delivered ==
    /\ mpc = "sending"
    /\ rpc = "returned"
    /\ outboundMessages' = [outboundMessages EXCEPT !.success = @ + 1]
    /\ sendResult' = (sendKind = "action")
    /\ Continue(pidx + 1)
    /\ UNCHANGED <<sendKind, recipient, blankText, nChunks, invocations, lastError,
                   delays, notSendVars>>

\* lines 350-353 and 383-386: executeWithRetry threw; the error is caught.
GaveUp ==
    /\ mpc = "sending"
    /\ rpc = "threw"
    /\ outboundMessages' = [outboundMessages EXCEPT !.error = @ + 1]
    /\ sendResult' = FALSE
    /\ Continue(AfterChunkError(pidx, nChunks))
    /\ UNCHANGED <<sendKind, recipient, blankText, nChunks, invocations, lastError,
                   delays, notSendVars>>

\* A text of 1..MaxParts chunks, or a sender action, is to be sent.
InitSend ==
    /\ sendKind \in {"text", "action"}
    /\ recipient \in {Absent, "u1"}
    /\ blankText \in (IF sendKind = "text" THEN BOOLEAN ELSE {FALSE})
    /\ nChunks \in (IF sendKind = "text" THEN 1..MaxParts ELSE {1})
    /\ pidx = 1
    /\ attempts = 0
    /\ attempt = 0
    /\ invocations = <<>>
    /\ lastError = NoFailure
    /\ delays = <<>>
    /\ rpc = "idle"
    /\ mpc = "entry"
    /\ sendResult = FALSE
    /\ outboundMessages = [success |-> 0, error |-> 0]
    /\ LockIdle /\ DecoderIdle /\ SessionIdle /\ ChunkIdle /\ HttpIdle /\ HookIdle

NextSend ==
    \/ SendTextEntry
    \/ SendActionEntry
    \/ \E ok \in BOOLEAN : Attempt(ok)
    \/ Delay
    \/ Delivered
    \/ GaveUp

SpecSend == InitSend /\ [][NextSend]_vars

\* The invocations of operation() made for chunk (or action) i, by position.
InvocationsOf(i) == { j \in DOMAIN invocations : invocations[j].item = i }

\* C23: operation() is invoked at most 3 times for a text chunk and at most
\* 2 times for a sender action, never again after it has succeeded, and when
\* executeWithRetry throws, every allowed attempt was made and failed and
\* the error thrown is that of the last attempt.
C23_BoundedRetry ==
    /\ \A i \in 1..nChunks : Cardinality(InvocationsOf(i)) <= (IF sendKind = "text" THEN 3 ELSE 2)
    /\ \A j, k \in DOMAIN invocations :
          (j < k /\ invocations[j].item = invocations[k].item) => ~invocations[j].ok
    /\ rpc = "threw" =>
          /\ Cardinality(InvocationsOf(pidx)) = (IF sendKind = "text" THEN 3 ELSE 2)
          /\ \A j \in InvocationsOf(pidx) : ~invocations[j].ok
          /\ lastError = [item |-> pidx, attempt |-> (IF sendKind = "text" THEN 3 ELSE 2)]

\* The first chunk went out at its second attempt and the second chunk has
\* just failed for the third time.
C23_Witness ==
    /\ sendKind = "text"
    /\ rpc = "threw"
    /\ invocations = << [item |-> 1, attempt |-> 1, ok |-> FALSE],
                        [item |-> 1, attempt |-> 2, ok |-> TRUE],
                        [item |-> 2, attempt |-> 1, ok |-> FALSE],
                        [item |-> 2, attempt |-> 2, ok |-> FALSE],
                        [item |-> 2, attempt |-> 3, ok |-> FALSE] >>
    /\ delays = <<100, 100, 200>>

\* The chunks whose send succeeded.
DeliveredChunks == { invocations[j].item : j \in { k \in DOMAIN invocations : invocations[k].ok } }

\* C24: chunks are sent in order, a chunk is attempted only when every chunk
\* before it was delivered, so the delivered chunks are a prefix of the list
\* and nothing is attempted after a chunk that failed.
C24_DeliveredIsPrefix ==
    /\ \A j, k \in DOMAIN invocations : j < k => invocations[j].item <= invocations[k].item
    /\ \A j \in DOMAIN invocations :
          \A i \in 1..(invocations[j].item - 1) : i \in DeliveredChunks
    /\ DeliveredChunks = 1..Cardinality(DeliveredChunks)
    /\ mpc = "returned" =>
          \A i \in 1..nChunks : i \notin DeliveredChunks => \A h \in (i + 1)..nChunks : InvocationsOf(h) = {}

\* Of three chunks the first was delivered, the second failed three times,
\* and the call returned without attempting the third.
C24_Witness ==
    /\ sendKind = "text" /\ nChunks = 3 /\ mpc = "returned"
    /\ DeliveredChunks = {1}
    /\ Cardinality(InvocationsOf(2)) = 3
    /\ InvocationsOf(3) = {}
    /\ outboundMessages = [success |-> 1, error |-> 1]

(***************************************************************************)
(* processEventStream on a response body given in advance                  *)
(***************************************************************************)
MaxBody == 5

Unparsable == Block("UNPARSABLE", NoId, "none", Undefined, <<>>)

\* An unparsable block and two blocks that parse and invoke a handler.
BodyBlocks ==
    { Unparsable,
      Block("RUN_STARTED", NoId, "none", Undefined, <<>>),
      Block("TEXT_MESSAGE", "m1", "assistant", <<"a">>, <<>>) }

Bodies == UNION { [1..n -> BodyBlocks] : n \in 0..MaxBody }

\* line 333: the loop takes the next block of the body.
FeedBlock ==
    /\ unread /= <<>>
    /\ DecodeStep(Head(unread))
    /\ unread' = Tail(unread)

\* lines 333, 480-483: the loop has run through the whole body.
EndOfBody ==
    /\ unread = <<>>
    /\ EndOfStream

InitBody ==
    /\ unread \in Bodies
    /\ stream = <<>>
    /\ activeMessages = <<>>
    /\ dispatchedMessages = {}
    /\ consecutiveParseErrors = 0
    /\ handlerCalls = <<>>
    /\ dpc = "decoding"
    /\ LockIdle /\ SessionIdle /\ HelpersIdle

NextBody ==
    \/ FeedBlock
    \/ EndOfBody

SpecBody == InitBody /\ [][NextBody]_vars

\* The response body: what was consumed and what was not.
Body == stream \o unread

\* Blocks i..j of the body exist and are all unparsable.
UnparsableRun(i, j) ==
    /\ 1 <= i /\ j <= Len(Body)
    /\ \A k \in i..j : Body[k] = Unparsable

\* The handler invocations a consumed stream accounts for when every block
\* that parses invokes one handler.
ParsedBlocks == { k \in DOMAIN stream : stream[k] /= Unparsable }

\* C25: when the body holds N+1 consecutive unparsable blocks (N = 3), the
\* decoder never returns normally and never takes a block that lies after
\* those N+1, so no handler is invoked for any later block.
C25_StopsAfterTooManyFailures ==
    \A i \in 1..Len(Body) :
        UnparsableRun(i, i + 3) =>
            /\ dpc /= "returned"
            /\ Len(stream) <= i + 3
            /\ Len(handlerCalls) <= Cardinality({ k \in ParsedBlocks : k < i })
            /\ (unread = <<>> \/ Len(stream) >= i + 2) => dpc = "threw"

\* Four unparsable blocks and then a well-formed one: the decoder threw and
\* left the well-formed block alone.
C25_Witness ==
    /\ dpc = "threw"
    /\ UnparsableRun(1, 4)
    /\ Len(Body) = 5 /\ Body[5] = Block("TEXT_MESSAGE", "m1", "assistant", <<"a">>, <<>>)
    /\ unread /= <<>>
    /\ handlerCalls = <<>>

\* C26: the fatal decode error is raised only when more than 3 consecutive
\* blocks failed to parse; a body with no longer run is decoded to its end.
C26_ThrowsOnlyBeyondThreshold ==
    dpc = "threw" => \E i \in 1..Len(stream) : UnparsableRun(i, i + 3) /\ i + 3 <= Len(stream)

(***************************************************************************)
(* HttpAguiDispatcher.dispatch                                             *)
(***************************************************************************)
MaxDispatched == 2

\* The events dispatch may be handed: a text, an echo, a message of a kind
\* buildUserMessage does not know, a postback and an event of unknown type.
DispatchEvents ==
    { InboundEvent("message", "text", <<"hello">>, FALSE, "u1", "p1"),
      InboundEvent("message", "text", <<"hello">>, TRUE, "u1", "p1"),
      InboundEvent("message", "sticker", <<>>, FALSE, "u1", "p1"),
      InboundEvent("postback", Absent, <<>>, FALSE, "u1", "p1"),
      InboundEvent("unknown", Absent, <<>>, FALSE, Absent, Absent) }

DispatchedBatches == UNION { [1..n -> DispatchEvents] : n \in 0..MaxDispatched }

\* lines 271-276: the ids of the RunAgentInput.
RunInput == <<[runId |-> "messenger-s1-uuid", threadId |-> "s1"]>>

\* One handler invocation: the handler and the ids and cause it was given.
Notice(h, runId, threadId, cause) ==
    [h |-> h, runId |-> runId, threadId |-> threadId, cause |-> cause]

\* What processEventStream does with a body: the handlers it invokes, from
\* the events of the stream, and whether it throws.
DecodeOutcomes ==
    { [calls |-> <<>>, threw |-> FALSE],
      [calls |-> <<"onRunStarted", "onAssistantMessage", "onRunFinished">>, threw |-> FALSE],
      [calls |-> <<"onRunError">>, threw |-> FALSE],
      [calls |-> <<"onRunStarted">>, threw |-> TRUE] }

\* The bug "the catch block does not re-throw".
MutRethrown(e) == "none"

\* line 235: `throw error`.
Rethrown(e) == e

\* A pending fetch or body read rejects with the abort of the timeout once
\* that has fired, and with a transport error otherwise.
Rejection == IF timer = "fired" THEN "AbortError" ELSE "TransportError"

\* lines 196-207: buildRunInput, the early return, the timeout and the fetch.
DispatchEntry ==
    /\ hpc = "entry"
    /\ IF HasRunInput(devents)
       THEN /\ payload' = RunInput
            /\ timer' = "armed"
            /\ fetches' = fetches + 1
            /\ hpc' = "fetch"
       ELSE /\ payload' = NoPayload
            /\ hpc' = "returned"
            /\ UNCHANGED <<timer, fetches>>
    /\ UNCHANGED <<devents, handlersArg, timerCleared, notified, error, thrownOut,
                   notHttpVars>>

\* line 207: the timeout fires while dispatch awaits; controller.abort().
TimeoutFires ==
    /\ timer = "armed"
    /\ hpc \in {"fetch", "safeRead", "text"}
    /\ timer' = "fired"
    /\ UNCHANGED <<devents, handlersArg, payload, hpc, timerCleared, fetches, notified,
                   error, thrownOut, notHttpVars>>

\* lines 210-217: the fetch settles.
FetchSettles(outcome) ==
    /\ hpc = "fetch"
    /\ CASE outcome = "ok" -> hpc' = "text" /\ UNCHANGED error
         [] outcome = "status" -> hpc' = "safeRead" /\ UNCHANGED error
         [] OTHER -> hpc' = "catch" /\ error' = Rejection
    /\ UNCHANGED <<devents, handlersArg, payload, timer, timerCleared, fetches,
                   notified, thrownOut, notHttpVars>>

\* lines 218-219: safeRead never rejects; the status error is thrown.
SafeReadSettles ==
    /\ hpc = "safeRead"
    /\ error' = "StatusError"
    /\ hpc' = "catch"
    /\ UNCHANGED <<devents, handlersArg, payload, timer, timerCleared, fetches,
                   notified, thrownOut, notHttpVars>>

\* line 222: response.text() settles.
TextSettles(ok) ==
    /\ hpc = "text"
    /\ IF ok THEN hpc' = "decode" /\ UNCHANGED error
             ELSE hpc' = "catch" /\ error' = Rejection
    /\ UNCHANGED <<devents, handlersArg, payload, timer, timerCleared, fetches,
                   notified, thrownOut, notHttpVars>>

\* line 223: processEventStream(body, handlers ?? {}), which is synchronous.
DecodeBody(outcome) ==
    /\ hpc = "decode"
    /\ notified' =
          IF handlersArg = "undefined" THEN notified
          ELSE notified \o [i \in DOMAIN outcome.calls |->
                              Notice(outcome.calls[i], "stream", "stream", "none")]
    /\ IF outcome.threw THEN hpc' = "catch" /\ error' = "ParseError"
                        ELSE hpc' = "finally" /\ UNCHANGED error
    /\ UNCHANGED <<devents, handlersArg, payload, timer, timerCleared, fetches,
                   thrownOut, notHttpVars>>

\* lines 224-235: the catch block.
CatchBlock ==
    /\ hpc = "catch"
    /\ notified' =
          IF handlersArg = "undefined" THEN notified
          ELSE Append(notified,
                      Notice("onRunError", payload[1].runId, payload[1].threadId, error))
    /\ thrownOut' = Rethrown(error)
    /\ hpc' = "finally"
    /\ UNCHANGED <<devents, handlersArg, payload, timer, timerCleared, fetches, error,
                   notHttpVars>>

\* lines 236-238: the finally block, then the return or the throw.
FinallyClearsTimeout ==
    /\ hpc = "finally"
    /\ timerCleared' = TRUE
    /\ timer' = IF timer = "armed" THEN "cancelled" ELSE timer
    /\ hpc' = IF thrownOut = "none" THEN "returned" ELSE "threw"
    /\ UNCHANGED <<devents, handlersArg, payload, fetches, notified, error, thrownOut,
                   notHttpVars>>

InitHttp ==
    /\ devents \in DispatchedBatches
    /\ handlersArg \in {"undefined", "given"}
    /\ payload = NoPayload
    /\ hpc = "entry"
    /\ timer = "none"
    /\ timerCleared = FALSE
    /\ fetches = 0
    /\ notified = <<>>
    /\ error = "none"
    /\ thrownOut = "none"
    /\ LockIdle /\ DecoderIdle /\ SessionIdle /\ ChunkIdle /\ SendIdle /\ HookIdle

NextHttp ==
    \/ DispatchEntry
    \/ TimeoutFires
    \/ \E outcome \in {"ok", "status", "reject"} : FetchSettles(outcome)
    \/ SafeReadSettles
    \/ \E ok \in BOOLEAN : TextSettles(ok)
    \/ \E outcome \in DecodeOutcomes : DecodeBody(outcome)
    \/ CatchBlock
    \/ FinallyClearsTimeout

SpecHttp == InitHttp /\ [][NextHttp]_vars

\* dispatch has returned or rejected.
DispatchEnded == hpc \in {"returned", "threw"}

\* C27: a failure after the RunRequest was built is never swallowed: dispatch
\* ends by throwing the very error the catch block received, after invoking
\* onRunError (when handlers were given) with the run id, the thread id and
\* that error; and whenever the timeout was created it has been cleared by
\* the time dispatch ends.
C27_FailureSurfacedAndRethrown ==
    DispatchEnded =>
        /\ error /= "none" =>
              /\ hpc = "threw"
              /\ thrownOut = error
              /\ handlersArg = "given" =>
                    /\ notified /= <<>>
                    /\ notified[Len(notified)] =
                          Notice("onRunError", payload[1].runId, payload[1].threadId, error)
        /\ error = "none" => hpc = "returned"
        /\ payload /= NoPayload => (timerCleared /\ timer /= "armed")

\* The request timed out: the timeout fired, the fetch rejected with the
\* abort, onRunError was told and dispatch threw the abort error.
C27_Witness ==
    /\ hpc = "threw"
    /\ timer = "fired" /\ timerCleared
    /\ error = "AbortError" /\ thrownOut = "AbortError"
    /\ handlersArg = "given"
    /\ notified = <<Notice("onRunError", "messenger-s1-uuid", "s1", "AbortError")>>

\* An echo, an event of unknown type, or a message of a kind that has no
\* rendering as a user message.
EchoOrUnknown(e) ==
    \/ e.isEcho
    \/ e.type = "unknown"
    \/ e.type = "message" /\ e.kind = "sticker"

\* C28: when the events are only echoes and unknown events, dispatch builds
\* no RunRequest, makes no request, invokes no handler and returns normally.
C28_NoInputNoRun ==
    (hpc /= "entry" /\ \A i \in DOMAIN devents : EchoOrUnknown(devents[i])) =>
        /\ hpc = "returned"
        /\ payload = NoPayload
        /\ fetches = 0
        /\ notified = <<>>
        /\ timer = "none"
        /\ thrownOut = "none"

\* An echo and an event of unknown type were dispatched with handlers.
C28_Witness ==
    /\ hpc = "returned"
    /\ handlersArg = "given"
    /\ Len(devents) = 2
    /\ devents[1].isEcho
    /\ devents[2].type = "unknown"
    /\ fetches = 0

(***************************************************************************)
(* handleWebhook and groupEventsBySession                                  *)
(***************************************************************************)
MaxEvents == 3

\* A normalized event, by the ids resolveSessionId looks at.
HookEvent(senderId, recipientId) == [senderId |-> senderId, recipientId |-> recipientId]

HookEvents ==
    { HookEvent("k1", "k2"), HookEvent("k2", "k1"), HookEvent(Absent, "k1") }

HookBatches == UNION { [1..n -> HookEvents] : n \in 0..MaxEvents }

\* lines 467-474: the sender id, or else the recipient id.
ResolveSessionId(e) == IF e.senderId /= Absent THEN e.senderId ELSE e.recipientId

\* The bug "an event of a key already seen replaces the key's collection".
MutCollect(result, k, i) ==
    IF \E g \in DOMAIN result : result[g].key = k
    THEN [g \in DOMAIN result |->
            IF result[g].key = k THEN [result[g] EXCEPT !.events = <<i>>] ELSE result[g]]
    ELSE Append(result, [key |-> k, events |-> <<i>>])

\* lines 455-461: push onto the key's collection, or set a new Map entry;
\* a Map keeps its entries in insertion order.  Events go by their position.
Collect(result, k, i) ==
    IF \E g \in DOMAIN result : result[g].key = k
    THEN [g \in DOMAIN result |->
            IF result[g].key = k THEN [result[g] EXCEPT !.events = Append(@, i)]
            ELSE result[g]]
    ELSE Append(result, [key |-> k, events |-> <<i>>])

RECURSIVE GroupFrom(_, _, _)
\* lines 453-462: the loop over the events, from position i on.
GroupFrom(batchEvents, i, result) ==
    IF i > Len(batchEvents) THEN result
    ELSE GroupFrom(batchEvents, i + 1,
                   Collect(result, ResolveSessionId(batchEvents[i]), i))

\* lines 448-465
GroupEventsBySession(batchEvents) == GroupFrom(batchEvents, 1, <<>>)

\* The signature headers of the model: one the agent verifies against the
\* raw body, one it does not, and none.
SignatureHeaders == {"valid", "forged", Absent}

\* The bug "every header passes".
MutVerified(signatureHeader) == TRUE

\* line 85: a header is there and agent.verifySignature accepts it.
Verified(signatureHeader) == signatureHeader /= Absent /\ signatureHeader = "valid"

\* lines 85-94: SignatureVerificationError is thrown.
HookReject(w) ==
    /\ wpc[w] = "idle"
    /\ ~Verified(input[w].signatureHeader)
    /\ wpc' = [wpc EXCEPT ![w] = "rejected"]
    /\ UNCHANGED <<input, normalized, grouped, gidx, inFlight, receivedEvents, processed,
                   lockVars, notHookVars>>

\* lines 85, 96-102: the signature passes; the events are normalized and grouped.
HookEntry(w) ==
    /\ wpc[w] = "idle"
    /\ Verified(input[w].signatureHeader)
    /\ normalized' = [normalized EXCEPT ![w] = input[w].payload]
    /\ IF Len(normalized'[w]) = 0
       THEN /\ receivedEvents' = [receivedEvents EXCEPT ![w] = 0]
            /\ wpc' = [wpc EXCEPT ![w] = "returned"]
            /\ UNCHANGED grouped
       ELSE /\ grouped' = [grouped EXCEPT ![w] = GroupEventsBySession(normalized'[w])]
            /\ wpc' = [wpc EXCEPT ![w] = "loop"]
            /\ UNCHANGED receivedEvents
    /\ UNCHANGED <<input, gidx, inFlight, processed, lockVars, notHookVars>>

\* lines 104-105, 119: processSession is called for the entry in hand, which
\* runs withSessionLock up to its `await previous`.
HookInvoke(w, c) ==
    /\ wpc[w] = "loop"
    /\ gidx[w] <= Len(grouped[w])
    /\ LockEntry(c, grouped[w][gidx[w]].key)
    /\ inFlight' = [inFlight EXCEPT ![w] = c]
    /\ processed' = Append(processed, [webhook |-> w, group |-> grouped[w][gidx[w]], call |-> c])
    /\ wpc' = [wpc EXCEPT ![w] = "awaiting"]
    /\ UNCHANGED <<input, normalized, grouped, gidx, receivedEvents, notHookVars>>

\* The bug "the loop catches the rejection and goes on".
MutResumed(outcome) == "loop"

\* line 105: `await` returns if processSession fulfilled and throws what it
\* rejected with; nothing in handleWebhook catches it.
Resumed(outcome) == IF outcome = "returned" THEN "loop" ELSE "threw"

\* line 105: the awaited processSession settled; a rejection leaves the loop
\* and handleWebhook.
HookResume(w) ==
    /\ wpc[w] = "awaiting"
    /\ Finished(inFlight[w])
    /\ IF Resumed(lpc[inFlight[w]]) = "loop"
       THEN /\ gidx' = [gidx EXCEPT ![w] = @ + 1]
            /\ wpc' = [wpc EXCEPT ![w] = "loop"]
       ELSE /\ wpc' = [wpc EXCEPT ![w] = "threw"]
            /\ UNCHANGED gidx
    /\ inFlight' = [inFlight EXCEPT ![w] = None]
    /\ UNCHANGED <<input, normalized, grouped, receivedEvents, processed, lockVars, notHookVars>>

\* lines 104, 108: the loop is over; the result is returned.
HookReturn(w) ==
    /\ wpc[w] = "loop"
    /\ gidx[w] > Len(grouped[w])
    /\ receivedEvents' = [receivedEvents EXCEPT ![w] = Len(normalized[w])]
    /\ wpc' = [wpc EXCEPT ![w] = "returned"]
    /\ UNCHANGED <<input, normalized, grouped, gidx, inFlight, processed, lockVars, notHookVars>>

\* The number of distinct keys of a batch.
KeysOf(batchEvents) == { ResolveSessionId(batchEvents[i]) : i \in DOMAIN batchEvents }

\* Two webhook deliveries, each under any signature header: any batch, and
\* next to it a batch of at most one event, which between them need no more
\* than MaxCalls processSession calls.
InitHook ==
    /\ input \in [Webhooks -> [signatureHeader : SignatureHeaders, payload : HookBatches]]
    /\ Len(input["w2"].payload) <= 1
    /\ Cardinality(KeysOf(input["w1"].payload))
          + Cardinality(KeysOf(input["w2"].payload)) <= MaxCalls
    /\ normalized = [w \in Webhooks |-> <<>>]
    /\ grouped = [w \in Webhooks |-> <<>>]
    /\ gidx = [w \in Webhooks |-> 1]
    /\ inFlight = [w \in Webhooks |-> None]
    /\ wpc = [w \in Webhooks |-> "idle"]
    /\ receivedEvents = [w \in Webhooks |-> -1]
    /\ processed = <<>>
    /\ LockIdle /\ DecoderIdle /\ SessionIdle /\ ChunkIdle /\ SendIdle /\ HttpIdle

NextHook ==
    \/ \E w \in Webhooks : HookReject(w)
    \/ \E w \in Webhooks : HookEntry(w)
    \/ \E w \in Webhooks, c \in Calls : HookInvoke(w, c)
    \/ \E c \in Calls : StartTask(c)
    \/ \E c \in Calls, o \in TaskOutcomes : FinishTask(c, o)
    \/ \E w \in Webhooks : HookResume(w)
    \/ \E w \in Webhooks : HookReturn(w)

SpecHook == InitHook /\ [][NextHook]_vars

\* The processSession invocations a webhook call has made, in order.
ProcessedBy(w) == SelectSeq(processed, LAMBDA p : p.webhook = w)

\* The positions of a batch that hold an event of key k, in order.
RECURSIVE PositionsOf(_, _, _)
PositionsOf(batchEvents, k, i) ==
    IF i > Len(batchEvents) THEN <<>>
    ELSE IF ResolveSessionId(batchEvents[i]) = k
         THEN <<i>> \o PositionsOf(batchEvents, k, i + 1)
         ELSE PositionsOf(batchEvents, k, i + 1)

\* C29: the groups of a batch are one group per key, in order of first
\* appearance, each holding exactly the events of its key in batch order;
\* processSession is invoked for the groups in that order, once each, the
\* next only after the one before has returned; and a webhook call that
\* returns has invoked it for every group and reports the number of events.
C29_GroupedAndSequential ==
    \A w \in Webhooks :
        wpc[w] \notin {"idle", "rejected"} =>
            LET g == grouped[w]
                done == ProcessedBy(w)
            IN
            /\ \A i \in DOMAIN g : g[i].events = PositionsOf(normalized[w], g[i].key, 1)
            /\ { g[i].key : i \in DOMAIN g } = KeysOf(normalized[w])
            /\ \A i, j \in DOMAIN g : i < j => g[i].events[1] < g[j].events[1]
            /\ Len(done) <= Len(g)
            /\ \A i \in DOMAIN done : done[i].group = g[i]
            /\ \A i \in DOMAIN done : i < Len(done) => lpc[done[i].call] = "returned"
            /\ wpc[w] = "returned" =>
                  /\ Len(done) = Len(g)
                  /\ \A i \in DOMAIN done : lpc[done[i].call] = "returned"
                  /\ receivedEvents[w] = Len(normalized[w])

\* A batch k1, k2, k1 was handled: the first and third event went to
\* processSession together, then the second, and 3 events were reported.
C29_Witness ==
    /\ wpc["w1"] = "returned"
    /\ receivedEvents["w1"] = 3
    /\ Len(ProcessedBy("w1")) = 2
    /\ ProcessedBy("w1")[1].group = [key |-> "k1", events |-> <<1, 3>>]
    /\ ProcessedBy("w1")[2].group = [key |-> "k2", events |-> <<2>>]

\* The event loop resumes every continuation that is ready, and the I/O of
\* every processSession call completes, except that of the first call,
\* which may stay suspended for as long as it likes.
FairHook ==
    /\ \A w \in Webhooks :
          /\ WF_vars(HookReject(w))
          /\ WF_vars(HookEntry(w))
          /\ WF_vars(\E c \in Calls : HookInvoke(w, c))
          /\ WF_vars(HookResume(w))
          /\ WF_vars(HookReturn(w))
    /\ \A c \in Calls :
          /\ WF_vars(StartTask(c))
          /\ WF_vars(c /= 1 /\ \E o \in TaskOutcomes : FinishTask(c, o))

SpecHookFair == SpecHook /\ FairHook

\* processSession was invoked for group g of webhook call w and has settled.
GroupSettled(w, g) ==
    /\ Len(ProcessedBy(w)) >= g
    /\ Finished(ProcessedBy(w)[g].call)

\* Group g of webhook call w is for another key than the one the first
\* processSession call is working on.
OtherKeyPending(w, g) ==
    /\ lpc[1] = "body"
    /\ wpc[w] \in {"loop", "awaiting"}
    /\ g <= Len(grouped[w])
    /\ grouped[w][g].key /= callKey[1]

\* C30: while the first processSession call stays suspended inside its body,
\* the processing of every group of another key - in the same batch or in
\* another webhook call - starts and completes (unless its own webhook call
\* was ended by a failure).
C30_OtherKeysNotBlocked ==
    \A w \in Webhooks : \A g \in 1..2 :
        OtherKeyPending(w, g) ~>
            (GroupSettled(w, g) \/ wpc[w] = "threw" \/ lpc[1] /= "body")

(***************************************************************************)
(* The signature check of handleWebhook                                    *)
(***************************************************************************)
\* The header of webhook call w is missing or is not the one that verifies.
BadSignature(w) == input[w].signatureHeader \in {"forged", Absent}

\* C31: a webhook call whose signature header is missing or fails
\* verification ends with SignatureVerificationError or has not run yet:
\* it normalized and grouped nothing, invoked processSession for no group
\* (so it caused no lock entry, session access, send or dispatch) and has
\* no result; when no call has a good header, the lock map stays empty.
C31_BadSignatureStopsFirst ==
    /\ \A w \in Webhooks :
          BadSignature(w) =>
              /\ wpc[w] \in {"idle", "rejected"}
              /\ normalized[w] = <<>>
              /\ grouped[w] = <<>>
              /\ ProcessedBy(w) = <<>>
              /\ inFlight[w] = None
              /\ receivedEvents[w] = -1
    /\ (\A w \in Webhooks : BadSignature(w)) =>
          /\ entered = <<>>
          /\ started = <<>>
          /\ \A k \in Keys : sessionLocks[k] = None

\* A webhook with a forged header and three events was rejected while the
\* other webhook call, properly signed, went on to process its event.
C31_Witness ==
    /\ wpc["w1"] = "rejected"
    /\ input["w1"].signatureHeader = "forged"
    /\ Len(input["w1"].payload) = 3
    /\ wpc["w2"] = "returned"
    /\ receivedEvents["w2"] = 1

(***************************************************************************)
(* The life of a sessionLocks entry                                        *)
(***************************************************************************)
\* Call c is inside withSessionLock for key k: queued or running its task.
Pending(c, k) == callKey[c] = k /\ lpc[c] \in {"waiting", "body"}

\* The call that entered withSessionLock last for key k (None if none did).
LastEntered(k) ==
    LET of == SelectSeq(entered, LAMBDA c : callKey[c] = k)
    IN IF of = <<>> THEN None ELSE of[Len(of)]

\* The map has an entry for k exactly while a call for k is pending, and the
\* entry is then the chain of the last call that entered for k.
EntryWhilePending ==
    \A k \in Keys :
        IF \E c \in Calls : Pending(c, k)
        THEN sessionLocks[k] = LastEntered(k)
        ELSE sessionLocks[k] = None

\* A call that finishes deletes the entry of its key if it is the tail and
\* leaves the map alone if a successor entered after it.
FinishPrunesTail ==
    \A c \in Calls :
        (lpc[c] = "body" /\ lpc'[c] \in TaskOutcomes) =>
            IF LastEntered(callKey[c]) = c
            THEN sessionLocks' = [sessionLocks EXCEPT ![callKey[c]] = None]
            ELSE sessionLocks' = sessionLocks /\ sessionLocks[callKey[c]] /= None

\* C32: sessionLocks holds an entry for a key only while some call for the
\* key is queued or executing; a finishing call removes the entry exactly
\* when it is the tail of the queue and leaves it when a successor waits;
\* once every call for the key has completed the map has no entry for it.
C32_EntryOnlyWhilePending == []EntryWhilePending /\ [][FinishPrunesTail]_vars

\* Three calls for one key have all completed, the second of them having
\* finished while the third was waiting, and the map has no entry for the
\* key; a call for the other key never happened.
C32_Witness ==
    /\ \A c \in 1..3 : callKey[c] = "k1" /\ Finished(c)
    /\ Len(entered) = 3
    /\ sessionLocks["k1"] = None
    /\ previous[3] = 2 /\ previous[2] = 1

(***************************************************************************)
(* The flush of RUN_FINISHED                                               *)
(***************************************************************************)
\* The step decodes a RUN_FINISHED block.
DecodesRunFinished ==
    /\ Len(stream') = Len(stream) + 1
    /\ stream'[Len(stream')].type = "RUN_FINISHED"

\* The handler invocations the step adds.
NewCalls == SubSeq(handlerCalls', Len(handlerCalls) + 1, Len(handlerCalls'))

\* One delivery per accumulator of `entries`, in the Map's order.
DeliveriesOf(entries) ==
    [i \in 1..Len(entries) |->
        HandlerCall("onAssistantMessage", entries[i].id, Trim(entries[i].text))]

\* The accumulators emitMessage lets through: non-blank text, id not yet
\* delivered in this run.
Deliverable ==
    SelectSeq(activeMessages,
              LAMBDA e : Trim(e.text) /= <<>> /\ e.id \notin dispatchedMessages)

RunFinishedCall == HandlerCall("onRunFinished", NoId, <<>>)

\* C33 as stated: on RUN_FINISHED every accumulator still open is delivered
\* to onAssistantMessage before onRunFinished is invoked, and afterwards
\* the accumulator map and the dispatched-id set are empty.
C33_EveryOpenDelivered ==
    [][DecodesRunFinished =>
          /\ NewCalls = DeliveriesOf(activeMessages) \o <<RunFinishedCall>>
          /\ activeMessages' = <<>>
          /\ dispatchedMessages' = {}]_vars

\* C33 as amended: on RUN_FINISHED every accumulator still open whose text
\* is non-blank and whose id was not already delivered in this run is
\* delivered (trimmed, in the order the accumulators were opened) before
\* onRunFinished is invoked, the others are dropped, and afterwards the
\* accumulator map and the dispatched-id set are empty.
C33_DeliverableOpenDelivered ==
    [][DecodesRunFinished =>
          /\ NewCalls = DeliveriesOf(Deliverable) \o <<RunFinishedCall>>
          /\ activeMessages' = <<>>
          /\ dispatchedMessages' = {}]_vars

\* m1 was started and given text but never ended; RUN_FINISHED delivered it
\* and then invoked onRunFinished, leaving nothing open.
C33_Witness ==
    /\ Len(stream) = 3
    /\ stream[1].type = "TEXT_MESSAGE_START"
    /\ stream[2].type = "TEXT_MESSAGE_CONTENT" /\ stream[2].text = <<"a">>
    /\ stream[3].type = "RUN_FINISHED"
    /\ handlerCalls = <<HandlerCall("onAssistantMessage", "m1", <<"a">>), RunFinishedCall>>
    /\ activeMessages = <<>> /\ dispatchedMessages = {}

(***************************************************************************)
(* MESSAGES_SNAPSHOT                                                       *)
(***************************************************************************)
\* Snapshots with a user message, blank and absent content, a message
\* without an id and an id that occurs twice.
Snapshots ==
    { <<SnapshotMessage("m2", "user", <<"b">>),
        SnapshotMessage("m1", "assistant", <<"a">>),
        SnapshotMessage("m2", "assistant", <<"b", " ">>)>>,
      <<SnapshotMessage("m1", "assistant", <<" ">>),
        SnapshotMessage("m2", "assistant", <<"b">>),
        SnapshotMessage("m2", "assistant", <<"a">>)>>,
      <<SnapshotMessage(NoId, "assistant", <<"a">>),
        SnapshotMessage("m1", "assistant", Undefined)>> }

\* The blocks of a stream that mixes the snapshot with the other forms.
SnapshotBlocks ==
    { Block("RUN_STARTED", NoId, "none", Undefined, <<>>),
      Block("RUN_FINISHED", NoId, "none", Undefined, <<>>),
      Block("TEXT_MESSAGE_START", "m1", "assistant", Undefined, <<>>),
      Block("TEXT_MESSAGE_CONTENT", "m1", "none", <<"a">>, <<>>),
      Block("TEXT_MESSAGE_END", "m1", "none", Undefined, <<>>),
      Block("TEXT_MESSAGE", "m1", "assistant", <<"a">>, <<>>),
      Block("TEXT_MESSAGE", NoId, "assistant", <<"b">>, <<>>) }
    \cup { Block("MESSAGES_SNAPSHOT", NoId, "none", Undefined, msgs) : msgs \in Snapshots }

NextSnapshot ==
    \/ \E b \in SnapshotBlocks : DecodeBlock(b)
    \/ EndOfStream

SpecSnapshot == InitDecoder /\ [][NextSnapshot]_vars

\* The step decodes a MESSAGES_SNAPSHOT block.
DecodesSnapshot ==
    /\ Len(stream') = Len(stream) + 1
    /\ stream'[Len(stream')].type = "MESSAGES_SNAPSHOT"

\* An assistant message was delivered after the last onRunStarted.
DeliveredSinceRunStarted ==
    \E i \in 1..Len(handlerCalls) :
        /\ handlerCalls[i].h = "onAssistantMessage"
        /\ \A j \in i..Len(handlerCalls) : handlerCalls[j].h /= "onRunStarted"

\* The assistant messages of a snapshot with non-blank content, each id
\* once, in snapshot order, as deliveries.
RECURSIVE SnapshotDeliveries(_, _)
SnapshotDeliveries(messages, seen) ==
    IF messages = <<>> THEN <<>>
    ELSE LET m == Head(messages)
             wanted == /\ m.role = "assistant"
                       /\ m.text /= Undefined
                       /\ Trim(m.text) /= <<>>
                       /\ m.id \notin seen
         IN IF wanted
            THEN <<HandlerCall("onAssistantMessage", m.id, Trim(m.text))>>
                    \o SnapshotDeliveries(Tail(messages), seen \cup ({m.id} \ {NoId}))
            ELSE SnapshotDeliveries(Tail(messages), seen)

\* C34 as stated: a MESSAGES_SNAPSHOT delivers nothing if an assistant
\* message has been delivered since the last RUN_STARTED; otherwise it
\* delivers each assistant message of the snapshot with non-blank content,
\* once each and in snapshot order, and no non-assistant message.
C34_SkippedAfterAnyDelivery ==
    [][DecodesSnapshot =>
          IF DeliveredSinceRunStarted
          THEN NewCalls = <<>>
          ELSE NewCalls = SnapshotDeliveries(stream'[Len(stream')].messages, {})]_vars

\* C34 as amended: a MESSAGES_SNAPSHOT delivers nothing if an assistant
\* message carrying a message id has been delivered since the last
\* RUN_STARTED or RUN_FINISHED (the dispatched-id set is not empty);
\* otherwise it delivers each assistant message of the snapshot with
\* non-blank content, once per id and in snapshot order, and no
\* non-assistant message.
C34_SkippedAfterTrackedDelivery ==
    [][DecodesSnapshot =>
          IF dispatchedMessages /= {}
          THEN NewCalls = <<>>
          ELSE NewCalls = SnapshotDeliveries(stream'[Len(stream')].messages, {})]_vars

\* After RUN_STARTED a snapshot of a user message and two assistant
\* messages delivered the two assistant messages in order, and a second
\* snapshot then delivered nothing.
C34_Witness ==
    /\ Len(stream) = 3
    /\ stream[1].type = "RUN_STARTED"
    /\ stream[2].type = "MESSAGES_SNAPSHOT"
    /\ stream[2].messages[1].role = "user"
    /\ stream[3].type = "MESSAGES_SNAPSHOT"
    /\ handlerCalls = <<HandlerCall("onRunStarted", NoId, <<>>),
                        HandlerCall("onAssistantMessage", "m1", <<"a">>),
                        HandlerCall("onAssistantMessage", "m2", <<"b">>)>>

(***************************************************************************)
(* Sends still in flight when processSessionInternal settles               *)
(***************************************************************************)
\* The handlers whose sends the decoder starts and does not await.
RunHandlers == {"onAssistantMessage", "onRunError", "onRunFinished"}

\* C35: when processSessionInternal has settled, which is when
\* withSessionLock releases the lock, no send started by a run handler
\* (an assistant text chunk, the apology, a typing_off) is still in flight
\* or still to be issued.
C35_SendsDoneBeforeRelease ==
    Exited => \A t \in BagToSet(tasks) : t.handler \notin RunHandlers

(***************************************************************************)
(* The apology of a failed dispatch                                        *)
(***************************************************************************)
\* C36: a call whose dispatch failed has, by the time it has thrown, sent
\* the generic apology exactly once.
C36_OneApology ==
    (Exited /\ dispatchThrew /= "none") => Cardinality(SendsOf("error")) = 1

(***************************************************************************)
(* The keep-alive tick with its retry, next to the dispatch phase          *)
(***************************************************************************)
\* lines 158-160 with 338-347 and 426-429: the interval fires; its callback
\* calls sendTypingAction, which enters executeWithRetry and invokes
\* agent.sendMessage for the first time, all before the first await.  The
\* outcome of that attempt is fixed here and acted on when it settles.
KeepAliveTick(ok) ==
    /\ timerActive
    /\ mpc = "entry"
    /\ sendKind' = "action"
    /\ recipient' = participants.userId
    /\ attempts' = AttemptsOf("action")
    /\ attempt' = 1
    /\ invocations' = Append(invocations, [item |-> pidx, attempt |-> 1, ok |-> ok])
    /\ lastError' = IF ok THEN lastError ELSE [item |-> pidx, attempt |-> 1]
    /\ rpc' = AfterAttempt(ok, 1, AttemptsOf("action"))
    /\ mpc' = "sending"
    /\ UNCHANGED <<blankText, nChunks, pidx, delays, sendResult, outboundMessages,
                   notSendVars>>

NextKeepAlive ==
    \/ FilterDone
    \/ \E ok \in BOOLEAN : MarkSeenSettles(ok)
    \/ \E ok \in BOOLEAN : TypingOnSettles(ok)
    \/ DispatchRejects
    \/ \E calls \in HandlerSeqs, threw \in BOOLEAN : DispatchDecodes(calls, threw)
    \/ CatchDispatch
    \/ \E ok \in BOOLEAN : ApologySettles(ok)
    \/ DispatchReturns
    \/ \E ok \in BOOLEAN : FinalOffSettles(ok)
    \/ \E t \in BagToSet(tasks), ok \in BOOLEAN : TaskSettles(t, ok)
    \/ \E ok \in BOOLEAN : KeepAliveTick(ok)
    \/ Delay
    \/ \E ok \in BOOLEAN : Attempt(ok)
    \/ Delivered
    \/ GaveUp

SpecKeepAlive == InitDispatch /\ [][NextKeepAlive]_vars

\* C37: once a typing_off has been sent for the dispatch, agent.sendMessage
\* is not invoked with typing_on again, a retry of a keep-alive tick that
\* was in flight when the interval was cleared included.
C37_NoTypingOnAfterOff ==
    [][SendsOf("typing_off") /= {} => invocations' = invocations]_vars

(***************************************************************************)
(* Framing events of a message that is not the assistant's                 *)
(***************************************************************************)
\* m1 is an assistant message and m2 a user message, both sent as framing;
\* the CONTENT and END events of m2 carry its role.
RoleBlocks ==
    { Block("RUN_STARTED", NoId, "none", Undefined, <<>>),
      Block("RUN_FINISHED", NoId, "none", Undefined, <<>>),
      Block("TEXT_MESSAGE_START", "m1", "assistant", Undefined, <<>>),
      Block("TEXT_MESSAGE_CONTENT", "m1", "assistant", <<"a">>, <<>>),
      Block("TEXT_MESSAGE_END", "m1", "assistant", Undefined, <<>>),
      Block("TEXT_MESSAGE_START", "m2", "user", Undefined, <<>>),
      Block("TEXT_MESSAGE_CONTENT", "m2", "user", <<"b">>, <<>>),
      Block("TEXT_MESSAGE_END", "m2", "user", Undefined, <<>>) }

NextRoles ==
    \/ \E b \in RoleBlocks : DecodeBlock(b)
    \/ EndOfStream

SpecRoles == InitDecoder /\ [][NextRoles]_vars

\* Message m opens with a TEXT_MESSAGE_START of a non-assistant role, and
\* no event of the stream that carries id m has the assistant role.
NeverAssistant(m) ==
    /\ \A i \in 1..Len(stream) : stream[i].id = m => ~IsAssistant(stream[i].role)
    /\ \E i \in 1..Len(stream) :
          /\ stream[i].id = m /\ stream[i].type = "TEXT_MESSAGE_START"
          /\ \A j \in 1..(i - 1) : stream[j].id /= m

\* C38: the text of a message whose TEXT_MESSAGE_START carried a
\* non-assistant role is never delivered to onAssistantMessage, whatever
\* assistant messages are open when its CONTENT and END events arrive.
C38_NonAssistantNeverDelivered ==
    \A m \in MsgIds : NeverAssistant(m) => Deliveries(m) = {}

(***************************************************************************)
(* A processSession that throws inside handleWebhook                       *)
(***************************************************************************)
\* The processSession call threw (DispatchError or any other exception).
Failed(c) == lpc[c] \in {"DispatchError", "Error"}

\* C39: when processSession throws for a group, handleWebhook throws too:
\* the failed invocation is the last one the webhook call makes (the groups
\* after it are never handed to processSession), the call returns no
\* receivedEvents result, and the groups before it were processed to their
\* return.
C39_FailureStopsBatch ==
    \A w \in Webhooks :
        LET done == ProcessedBy(w) IN
        \A i \in DOMAIN done :
            Failed(done[i].call) =>
                /\ i = Len(done)
                /\ wpc[w] \in {"awaiting", "threw"}
                /\ receivedEvents[w] = -1
                /\ \A j \in 1..(i - 1) : lpc[done[j].call] = "returned"

\* The batch k1, k2 was delivered; processSession threw for the group of
\* k1, handleWebhook threw, and the group of k2 was never processed.
C39_Witness ==
    /\ wpc["w1"] = "threw"
    /\ Len(grouped["w1"]) = 2
    /\ Len(ProcessedBy("w1")) = 1
    /\ Failed(ProcessedBy("w1")[1].call)
    /\ \A c \in Calls : lpc[c] /= "idle" => callKey[c] /= grouped["w1"][2].key

(***************************************************************************)
(* The flush at the end of the stream                                      *)
(***************************************************************************)
\* The step is the one in which processEventStream returns.
DecoderReturns == dpc = "decoding" /\ dpc' = "returned"

\* The stream holds no RUN_FINISHED event.
NoRunFinished == \A i \in 1..Len(stream) : stream[i].type /= "RUN_FINISHED"

\* C40: when the stream ends, every accumulator still open whose content is
\* non-blank and whose id was not already dispatched is delivered to
\* onAssistantMessage, and nothing else is, before processEventStream
\* returns; if the stream held no RUN_FINISHED, onRunFinished is not
\* invoked at all.
C40_OpenFlushedAtEnd ==
    [][DecoderReturns =>
          /\ NewCalls = DeliveriesOf(Deliverable)
          /\ NoRunFinished =>
                \A i \in 1..Len(handlerCalls') : handlerCalls'[i].h /= "onRunFinished"]_vars

\* After RUN_STARTED, m1 was started and given text; the stream ended with
\* neither TEXT_MESSAGE_END nor RUN_FINISHED and m1 was delivered.
C40_Witness ==
    /\ dpc = "returned"
    /\ Len(stream) = 3
    /\ stream[1].type = "RUN_STARTED"
    /\ stream[2].type = "TEXT_MESSAGE_START"
    /\ stream[3].type = "TEXT_MESSAGE_CONTENT" /\ stream[3].text = <<"a">>
    /\ handlerCalls = <<HandlerCall("onRunStarted", NoId, <<>>),
                        HandlerCall("onAssistantMessage", "m1", <<"a">>)>>

====
